---------------------------- MODULE Spec2Model ----------------------------
(***************************************************************************)
(* Model of the 340B optimizer: the margin engine (compute/margins.py),    *)
(* the display record (models.py), the risk overlays (risk/*.py), the      *)
(* crosswalk joins (ingest/normalizers.py) and the dashboard's opportunity *)
(* list (ui/pages/dashboard.py).                                           *)
(*                                                                         *)
(* decimal.Decimal values are records [c |-> coefficient, e |-> number of  *)
(* decimal places]: Decimal("150.00") is [c |-> 15000, e |-> 2].  Within   *)
(* the value sets below no coefficient comes near the 28 significant       *)
(* digits of the default decimal context, so no operation rounds.          *)
(* An optional value (Python's None) is the empty sequence, a present      *)
(* value v the one-element sequence <<v>>.                                 *)
(***************************************************************************)
EXTENDS Integers, Sequences, FiniteSets, TLC

VARIABLES
    drug,        \* margin engine: the Drug under analysis
    params,      \* margin engine: the parameter set of the request
    mres,        \* margin engine: the last result returned
    nadac,       \* floor pricing: the NADAC table (None when not uploaded)
    opportunities, \* floor pricing: the opportunity list / catalog rows
    fout,        \* floor pricing: the last result returned
    catalog,     \* joins: the normalized product catalog
    crosswalk,   \* joins: the normalized NDC-HCPCS crosswalk
    asp_pricing, \* joins: the ASP pricing file
    jres,        \* joins: the last result returned
    IRA_2026_DRUGS,    \* risk tables: module global of risk/ira_flags.py
    IRA_2027_DRUGS,    \* risk tables: module global of risk/ira_flags.py
    IRA_DRUGS_BY_YEAR, \* risk tables: module global of risk/ira_flags.py
    CP_RESTRICTIONS,   \* risk tables: module global of risk/manufacturer_cp.py
    reload,      \* risk tables: the thread running a reload
    lookup,      \* risk tables: the thread running a lookup
    committed,   \* risk tables: the tables of the last completed reload
    arg,         \* a call of a function without state: its arguments
    ret          \* a call of a function without state: what it returned

marginVars == <<drug, params, mres>>

pennyVars == <<nadac, opportunities, fout>>

joinVars == <<catalog, crosswalk, asp_pricing, jres>>

riskVars == <<IRA_2026_DRUGS, IRA_2027_DRUGS, IRA_DRUGS_BY_YEAR, CP_RESTRICTIONS,
              reload, lookup, committed>>

callVars == <<arg, ret>>

vars == <<marginVars, pennyVars, joinVars, riskVars, callVars>>

-----------------------------------------------------------------------------
(* Optional values *)

None == <<>>

Some(v) == <<v>>

IsNone(o) == o = <<>>

IsSome(o) == o /= <<>>

Val(o) == o[1]

-----------------------------------------------------------------------------
(* decimal.Decimal *)

Max(a, b) == IF a >= b THEN a ELSE b

RECURSIVE Pow10(_)
Pow10(n) == IF n <= 0 THEN 1 ELSE 10 * Pow10(n - 1)

Dec(c, e) == [c |-> c, e |-> e]

\* Decimal(int): an int operand is converted with exponent 0
DecFromInt(n) == Dec(n, 0)

\* the coefficient of d written with e decimal places (e >= d.e)
Coef(d, e) == d.c * Pow10(e - d.e)

DecMul(a, b) == Dec(a.c * b.c, a.e + b.e)

DecAdd(a, b) == LET e == Max(a.e, b.e) IN Dec(Coef(a, e) + Coef(b, e), e)

DecSub(a, b) == LET e == Max(a.e, b.e) IN Dec(Coef(a, e) - Coef(b, e), e)

DecAbs(a) == Dec(IF a.c < 0 THEN -a.c ELSE a.c, a.e)

\* comparisons are numeric: Decimal("1.0") == Decimal("1.00")
DecEq(a, b) == LET e == Max(a.e, b.e) IN Coef(a, e) = Coef(b, e)

DecLt(a, b) == LET e == Max(a.e, b.e) IN Coef(a, e) < Coef(b, e)

DecGt(a, b) == DecLt(b, a)

DecGe(a, b) == ~DecLt(a, b)

DecIsZero(a) == a.c = 0

\* bool(x) of an optional Decimal: None and a zero Decimal are both falsy
Truthy(o) == IsSome(o) /\ ~DecIsZero(Val(o))

\* "x or Decimal('0')"
OrZero(o) == IF Truthy(o) THEN Val(o) ELSE Dec(0, 0)


-----------------------------------------------------------------------------
(* models.py *)

RETAIL == "RETAIL"

MEDICARE_MEDICAL == "MEDICARE_MEDICAL"

COMMERCIAL_MEDICAL == "COMMERCIAL_MEDICAL"

\* Drug.has_medical_path
has_medical_path(d) == IsSome(d.hcpcs_code) /\ IsSome(d.asp)

\* the MarginAnalysis dataclass; the five pathway margins default to None
MarginAnalysis(d, pm, pmc, mm, mmc, mc, gross, net, rate, medicare, commercial, path, delta) ==
    [drug |-> d,
     pharmacy_medicaid_margin |-> pm,
     pharmacy_medicare_commercial_margin |-> pmc,
     medical_medicaid_margin |-> mm,
     medical_medicare_margin |-> mmc,
     medical_commercial_margin |-> mc,
     retail_gross_margin |-> gross,
     retail_net_margin |-> net,
     retail_capture_rate |-> rate,
     medicare_margin |-> medicare,
     commercial_margin |-> commercial,
     recommended_path |-> path,
     margin_delta |-> delta]

\* float(x) if x else None: the display value of an optional Decimal.  The
\* binary rounding of float() is not modelled; the Decimal stands for it.
DisplayOpt(o) == IF Truthy(o) THEN Some(Val(o)) ELSE None

\* MarginAnalysis.to_display_dict
to_display_dict(a) ==
    [contract_cost |-> a.drug.contract_cost,
     awp |-> a.drug.awp,
     asp |-> DisplayOpt(a.drug.asp),
     retail_gross_margin |-> a.retail_gross_margin,
     retail_net_margin |-> a.retail_net_margin,
     retail_capture_rate |-> a.retail_capture_rate,
     medicare_margin |-> DisplayOpt(a.medicare_margin),
     commercial_margin |-> DisplayOpt(a.commercial_margin),
     recommendation |-> a.recommended_path,
     margin_delta |-> a.margin_delta,
     penny_pricing |-> a.drug.penny_pricing_flag]

-----------------------------------------------------------------------------
(* compute/margins.py *)

AWP_DISCOUNT_FACTOR == Dec(85, 2)

AWP_BRAND_FACTOR == Dec(85, 2)

AWP_GENERIC_FACTOR == Dec(20, 2)

MEDICAID_ASP_MULTIPLIER == Dec(104, 2)

MEDICARE_ASP_MULTIPLIER == Dec(106, 2)

COMMERCIAL_ASP_MULTIPLIER == Dec(115, 2)

DEFAULT_CAPTURE_RATE == Dec(10, 1)

DEFAULT_DISPENSE_FEE == Dec(0, 0)

DEFAULT_MEDICAID_MARKUP == Dec(0, 0)

DEFAULT_COMMERCIAL_ASP_PCT == Dec(15, 2)

\* mutant: the capture rate applied to the revenue, the cost subtracted after
calculate_retail_margin_RateOnRevenue(d, capture_rate) ==
    LET revenue == DecMul(d.awp, AWP_DISCOUNT_FACTOR)
        gross_margin == DecSub(revenue, d.contract_cost)
        net_margin == DecSub(DecMul(revenue, capture_rate), d.contract_cost)
    IN  <<gross_margin, net_margin>>

\* returns <<gross_margin, net_margin>>
calculate_retail_margin(d, capture_rate) ==
    LET revenue == DecMul(d.awp, AWP_DISCOUNT_FACTOR)
        gross_margin == DecSub(revenue, d.contract_cost)
        net_margin == DecMul(gross_margin, capture_rate)
    IN  <<gross_margin, net_margin>>

\* mutant: the bill units per package left out of the revenue
MedicalMargin_NoBillUnits(d, multiplier) ==
    IF ~has_medical_path(d) THEN None
    ELSE Some(DecSub(DecMul(Val(d.asp), multiplier), d.contract_cost))

\* ASP x multiplier x bill units - contract cost, None without a medical path
MedicalMargin(d, multiplier) ==
    IF ~has_medical_path(d) THEN None
    ELSE LET revenue == DecMul(DecMul(Val(d.asp), multiplier),
                               DecFromInt(d.bill_units_per_package))
         IN  Some(DecSub(revenue, d.contract_cost))

calculate_medicare_margin(d) == MedicalMargin(d, MEDICARE_ASP_MULTIPLIER)

\* mutant: the Medicare multiplier used for the commercial payer
calculate_commercial_margin_MedicareRate(d) == MedicalMargin(d, MEDICARE_ASP_MULTIPLIER)

calculate_commercial_margin(d) == MedicalMargin(d, COMMERCIAL_ASP_MULTIPLIER)

calculate_pharmacy_medicaid_margin(d, dispense_fee, markup_pct, capture_rate) ==
    IF IsNone(d.nadac_price) THEN None
    ELSE LET base == DecAdd(Val(d.nadac_price), dispense_fee)
             revenue == DecMul(base, DecAdd(Dec(1, 0), markup_pct))
         IN  Some(DecSub(DecMul(revenue, capture_rate), d.contract_cost))

calculate_pharmacy_medicare_commercial_margin(d, capture_rate) ==
    LET awp_factor == IF d.is_brand THEN AWP_BRAND_FACTOR ELSE AWP_GENERIC_FACTOR
        revenue == DecMul(d.awp, awp_factor)
    IN  DecSub(DecMul(revenue, capture_rate), d.contract_cost)

calculate_medical_medicaid_margin(d) == MedicalMargin(d, MEDICAID_ASP_MULTIPLIER)

calculate_medical_medicare_margin(d) == MedicalMargin(d, MEDICARE_ASP_MULTIPLIER)

calculate_medical_commercial_margin(d, asp_multiplier) == MedicalMargin(d, asp_multiplier)

Option(path, margin) == [path |-> path, margin |-> margin]

\* an optional margin as a list of zero or one option
OptionIf(path, o) == IF IsSome(o) THEN <<Option(path, Val(o))>> ELSE <<>>

\* where x goes in a list sorted by margin, highest first: behind every
\* element whose margin is not lower (the sort is stable)
RECURSIVE InsertPos(_, _, _)
InsertPos(sorted, x, i) ==
    IF i > Len(sorted) THEN i
    ELSE IF DecLt(sorted[i].margin, x.margin) THEN i
    ELSE InsertPos(sorted, x, i + 1)

InsertDesc(sorted, x) ==
    LET i == InsertPos(sorted, x, 1)
    IN  SubSeq(sorted, 1, i - 1) \o <<x>> \o SubSeq(sorted, i, Len(sorted))

\* mutant: the sort without reverse=True, lowest margin first
RECURSIVE SortDesc_Ascending(_)
SortDesc_Ascending(options) ==
    IF options = <<>> THEN <<>>
    ELSE LET rest == SortDesc_Ascending(SubSeq(options, 1, Len(options) - 1))
             x == options[Len(options)]
             keep == {i \in 1..Len(rest) : ~DecLt(x.margin, rest[i].margin)}
             n == Cardinality(keep)
         IN  SubSeq(rest, 1, n) \o <<x>> \o SubSeq(rest, n + 1, Len(rest))

\* mutant: a descending sort that puts an option before the earlier ones of
\* the same margin
RECURSIVE SortDesc_TiesReversed(_)
SortDesc_TiesReversed(options) ==
    IF options = <<>> THEN <<>>
    ELSE LET rest == SortDesc_TiesReversed(SubSeq(options, 1, Len(options) - 1))
             x == options[Len(options)]
             above == {i \in 1..Len(rest) : DecGt(rest[i].margin, x.margin)}
             n == Cardinality(above)
         IN  SubSeq(rest, 1, n) \o <<x>> \o SubSeq(rest, n + 1, Len(rest))

\* options.sort(key=lambda x: x[1], reverse=True)
RECURSIVE SortDesc(_)
SortDesc(options) ==
    IF options = <<>> THEN <<>>
    ELSE InsertDesc(SortDesc(SubSeq(options, 1, Len(options) - 1)),
                    options[Len(options)])

\* best path and signed delta of a non-empty option list
BestOf(options) ==
    LET sorted == SortDesc(options)
        best_margin == sorted[1].margin
    IN  [path |-> sorted[1].path,
         delta |-> IF Len(sorted) > 1
                   THEN DecSub(best_margin, sorted[2].margin)
                   ELSE best_margin]

analyze_drug_margin_5pathway(d, capture_rate, dispense_fee, medicaid_markup_pct, commercial_asp_pct) ==
    LET pharmacy_medicaid ==
            calculate_pharmacy_medicaid_margin(d, dispense_fee, medicaid_markup_pct, capture_rate)
        pharmacy_medicare_commercial ==
            calculate_pharmacy_medicare_commercial_margin(d, capture_rate)
        medical_medicaid == calculate_medical_medicaid_margin(d)
        medical_medicare == calculate_medical_medicare_margin(d)
        medical_commercial ==
            calculate_medical_commercial_margin(d, DecAdd(Dec(1, 0), commercial_asp_pct))
        options == OptionIf(RETAIL, pharmacy_medicaid)
                   \o <<Option(RETAIL, pharmacy_medicare_commercial)>>
                   \o OptionIf(MEDICARE_MEDICAL, medical_medicaid)
                   \o OptionIf(MEDICARE_MEDICAL, medical_medicare)
                   \o OptionIf(COMMERCIAL_MEDICAL, medical_commercial)
        best == BestOf(options)
        retail == calculate_retail_margin(d, capture_rate)
    IN  MarginAnalysis(d, pharmacy_medicaid, Some(pharmacy_medicare_commercial),
                       medical_medicaid, medical_medicare, medical_commercial,
                       retail[1], retail[2], capture_rate,
                       medical_medicare, medical_commercial,
                       best.path, DecAbs(best.delta))

\* returns [path, delta]
determine_recommendation(retail_net, medicare, commercial) ==
    BestOf(<<Option(RETAIL, retail_net)>>
           \o OptionIf(MEDICARE_MEDICAL, medicare)
           \o OptionIf(COMMERCIAL_MEDICAL, commercial))

analyze_drug_margin(d, capture_rate) ==
    LET retail == calculate_retail_margin(d, capture_rate)
        medicare == calculate_medicare_margin(d)
        commercial == calculate_commercial_margin(d)
        rec == determine_recommendation(retail[2], medicare, commercial)
    IN  MarginAnalysis(d, None, None, None, None, None,
                       retail[1], retail[2], capture_rate,
                       medicare, commercial, rec.path, rec.delta)

analyze_drug_with_payer(d, payer_type, capture_rate) ==
    LET retail == calculate_retail_margin(d, capture_rate)
        retail_net == retail[2]
        medical_margin == IF payer_type = "medicare"
                          THEN calculate_medicare_margin(d)
                          ELSE calculate_commercial_margin(d)
        medical_path == IF payer_type = "medicare"
                        THEN MEDICARE_MEDICAL ELSE COMMERCIAL_MEDICAL
        wins == IsSome(medical_margin) /\ DecGt(Val(medical_margin), retail_net)
        delta == IF wins THEN DecSub(Val(medical_margin), retail_net)
                 ELSE DecSub(retail_net, OrZero(medical_margin))
    IN  MarginAnalysis(d, None, None, None, None, None,
                       retail[1], retail_net, capture_rate,
                       calculate_medicare_margin(d), calculate_commercial_margin(d),
                       IF wins THEN medical_path ELSE RETAIL, DecAbs(delta))

DEFAULT_SENSITIVITY_RATES == <<Dec(40, 2), Dec(45, 2), Dec(60, 2), Dec(80, 2), Dec(100, 2)>>

\* one row of the sensitivity sweep
SensitivityRow(d, rate) ==
    LET medicare == calculate_medicare_margin(d)
        commercial == calculate_commercial_margin(d)
        retail_net == calculate_retail_margin(d, rate)[2]
    IN  [capture_rate |-> rate,
         retail_net |-> retail_net,
         medicare |-> OrZero(medicare),
         commercial |-> OrZero(commercial),
         recommended |-> determine_recommendation(retail_net, medicare, commercial).path]

\* capture_rates is None (the default list) or a list of rates
calculate_margin_sensitivity(d, capture_rates) ==
    LET rates == IF IsNone(capture_rates) THEN DEFAULT_SENSITIVITY_RATES
                 ELSE Val(capture_rates)
    IN  [i \in 1..Len(rates) |-> SensitivityRow(d, rates[i])]

NoResult == [kind |-> "none"]

-----------------------------------------------------------------------------
(* The margin engine as a state machine: Init draws one Drug and one       *)
(* parameter set, each action is one entry point applied to them.          *)

MaxBillUnits == 2

Costs == {Dec(0, 0), Dec(1, 2), Dec(15000, 2)}

Awps == {Dec(0, 0), Dec(100, 0), Dec(6500, 0)}

AspOpts == {None, Some(Dec(0, 0)), Some(Dec(280000, 2))}

HcpcsOpts == {None, Some("J0135")}

NadacOpts == {None, Some(Dec(200, 0))}

Drugs ==
    [contract_cost : Costs, awp : Awps, asp : AspOpts, hcpcs_code : HcpcsOpts,
     bill_units_per_package : 1..MaxBillUnits, is_brand : BOOLEAN,
     penny_pricing_flag : {FALSE}, nadac_price : NadacOpts]

Param(rate, fee, markup, pct) ==
    [capture_rate |-> rate, dispense_fee |-> fee,
     medicaid_markup_pct |-> markup, commercial_asp_pct |-> pct]

ParamSets ==
    {Param(DEFAULT_CAPTURE_RATE, DEFAULT_DISPENSE_FEE, DEFAULT_MEDICAID_MARKUP,
           DEFAULT_COMMERCIAL_ASP_PCT),
     Param(Dec(40, 2), DEFAULT_DISPENSE_FEE, DEFAULT_MEDICAID_MARKUP,
           DEFAULT_COMMERCIAL_ASP_PCT),
     Param(Dec(0, 2), Dec(10, 0), Dec(5, 2), DEFAULT_COMMERCIAL_ASP_PCT),
     Param(Dec(45, 2), Dec(10, 0), Dec(5, 2), Dec(4, 2)),
     Param(DEFAULT_CAPTURE_RATE, DEFAULT_DISPENSE_FEE, DEFAULT_MEDICAID_MARKUP, Dec(6, 2))}

\* arguments of a direct call of determine_recommendation
RetailNets == {Dec(-100, 0), Dec(0, 0), Dec(1000, 0)}

MedicareOpts == {None, Some(Dec(0, 0)), Some(Dec(1000, 0)), Some(Dec(2000, 0))}

CommercialOpts == {None, Some(Dec(1000, 0)), Some(Dec(3000, 0))}

\* capture_rates arguments of the sensitivity sweep
RateLists == {None, Some(<<Dec(100, 2), Dec(40, 2)>>)}

AnalysisKinds == {"analysis5", "analysis", "payer"}

\* the margin engine before any request
IdleMargin ==
    /\ drug = [contract_cost |-> Dec(0, 0), awp |-> Dec(0, 0), asp |-> None,
               hcpcs_code |-> None, bill_units_per_package |-> 1,
               is_brand |-> TRUE, penny_pricing_flag |-> FALSE, nadac_price |-> None]
    /\ params = Param(DEFAULT_CAPTURE_RATE, DEFAULT_DISPENSE_FEE,
                      DEFAULT_MEDICAID_MARKUP, DEFAULT_COMMERCIAL_ASP_PCT)
    /\ mres = NoResult

\* no NADAC table, no opportunity list
IdlePenny ==
    /\ nadac = None
    /\ opportunities = <<>>
    /\ fout = NoResult

\* no file uploaded
IdleJoin ==
    /\ catalog = <<>>
    /\ crosswalk = <<>>
    /\ asp_pricing = <<>>
    /\ jres = NoResult

\* empty risk tables, no reload and no lookup running
IdleRisk ==
    /\ IRA_2026_DRUGS = <<>>
    /\ IRA_2027_DRUGS = <<>>
    /\ IRA_DRUGS_BY_YEAR = [id |-> 0, items |-> <<>>]
    /\ CP_RESTRICTIONS = <<>>
    /\ reload = [pc |-> "idle"]
    /\ lookup = [pc |-> "idle"]
    /\ committed = [d26 |-> <<>>, d27 |-> <<>>, cp |-> <<>>]

\* no call made
IdleCall ==
    /\ arg = NoResult
    /\ ret = NoResult

InitMargin ==
    /\ drug \in Drugs
    /\ params \in ParamSets
    /\ mres = NoResult
    /\ IdlePenny
    /\ IdleJoin
    /\ IdleRisk
    /\ IdleCall

Analyze5Pathway ==
    /\ mres = NoResult
    /\ mres' = [kind |-> "analysis5",
                analysis |-> analyze_drug_margin_5pathway(
                    drug, params.capture_rate, params.dispense_fee,
                    params.medicaid_markup_pct, params.commercial_asp_pct)]
    /\ UNCHANGED <<drug, params, pennyVars, joinVars, riskVars, callVars>>

AnalyzeDrugMargin ==
    /\ mres = NoResult
    /\ mres' = [kind |-> "analysis",
                analysis |-> analyze_drug_margin(drug, params.capture_rate)]
    /\ UNCHANGED <<drug, params, pennyVars, joinVars, riskVars, callVars>>

AnalyzeWithPayer ==
    /\ mres = NoResult
    /\ \E payer_type \in {"medicare", "commercial"} :
          mres' = [kind |-> "payer", payer_type |-> payer_type,
                   analysis |-> analyze_drug_with_payer(drug, payer_type,
                                                        params.capture_rate)]
    /\ UNCHANGED <<drug, params, pennyVars, joinVars, riskVars, callVars>>

DetermineRecommendation ==
    /\ mres = NoResult
    /\ \E retail_net \in RetailNets, medicare \in MedicareOpts,
          commercial \in CommercialOpts :
          mres' = [kind |-> "recommendation",
                   retail_net |-> retail_net, medicare |-> medicare,
                   commercial |-> commercial,
                   rec |-> determine_recommendation(retail_net, medicare, commercial)]
    /\ UNCHANGED <<drug, params, pennyVars, joinVars, riskVars, callVars>>

MarginSensitivity ==
    /\ mres = NoResult
    /\ \E capture_rates \in RateLists :
          mres' = [kind |-> "sensitivity",
                   rows |-> calculate_margin_sensitivity(drug, capture_rates)]
    /\ UNCHANGED <<drug, params, pennyVars, joinVars, riskVars, callVars>>

ToDisplayDict ==
    /\ mres.kind \in AnalysisKinds
    /\ mres' = [kind |-> "display", analysis |-> mres.analysis,
                display |-> to_display_dict(mres.analysis)]
    /\ UNCHANGED <<drug, params, pennyVars, joinVars, riskVars, callVars>>

NextMargin ==
    \/ Analyze5Pathway
    \/ AnalyzeDrugMargin
    \/ AnalyzeWithPayer
    \/ DetermineRecommendation
    \/ MarginSensitivity
    \/ ToDisplayDict

SpecMargin == InitMargin /\ [][NextMargin]_vars

-----------------------------------------------------------------------------
(* Properties of the margin engine *)

\* the present pathway margins of a five-pathway analysis, as options
Present5(a) ==
    OptionIf(RETAIL, a.pharmacy_medicaid_margin)
    \o OptionIf(RETAIL, a.pharmacy_medicare_commercial_margin)
    \o OptionIf(MEDICARE_MEDICAL, a.medical_medicaid_margin)
    \o OptionIf(MEDICARE_MEDICAL, a.medical_medicare_margin)
    \o OptionIf(COMMERCIAL_MEDICAL, a.medical_commercial_margin)

\* the present pathway margins of a legacy three-pathway comparison
Present3(retail_net, medicare, commercial) ==
    <<Option(RETAIL, retail_net)>>
    \o OptionIf(MEDICARE_MEDICAL, medicare)
    \o OptionIf(COMMERCIAL_MEDICAL, commercial)

\* path names an option whose margin no other option exceeds
IsMaximal(path, options) ==
    \E i \in 1..Len(options) :
        /\ options[i].path = path
        /\ \A j \in 1..Len(options) : DecGe(options[i].margin, options[j].margin)

\* best minus second-best margin, or the only margin of a singleton
ExpectedDelta(options) ==
    LET i == CHOOSE k \in 1..Len(options) :
                 \A j \in 1..Len(options) : DecGe(options[k].margin, options[j].margin)
        rest == (1..Len(options)) \ {i}
    IN  IF rest = {} THEN options[i].margin
        ELSE LET s == CHOOSE k \in rest :
                          \A j \in rest : DecGe(options[k].margin, options[j].margin)
             IN  DecSub(options[i].margin, options[s].margin)

\* C2: the recommended pathway of analyze_drug_margin_5pathway and of
\* determine_recommendation carries a margin that is greater than or equal to
\* every other present pathway margin, signed values compared.
C2_RecommendedIsMaximum ==
    /\ mres.kind = "analysis5" =>
          IsMaximal(mres.analysis.recommended_path, Present5(mres.analysis))
    /\ mres.kind = "analysis" =>
          IsMaximal(mres.analysis.recommended_path,
                    Present3(mres.analysis.retail_net_margin,
                             mres.analysis.medicare_margin,
                             mres.analysis.commercial_margin))
    /\ mres.kind = "recommendation" =>
          IsMaximal(mres.rec.path,
                    Present3(mres.retail_net, mres.medicare, mres.commercial))

\* a five-pathway analysis with all five margins present, a negative one
\* among them, and a medical pathway recommended
C2_Witness ==
    /\ mres.kind = "analysis5"
    /\ Len(Present5(mres.analysis)) = 5
    /\ \E i \in 1..5 : Present5(mres.analysis)[i].margin.c < 0
    /\ mres.analysis.recommended_path = COMMERCIAL_MEDICAL

RateOne == Dec(10, 1)

Cents(d) == Coef(d, 2)

\* a Decimal with at most four decimal places, in hundredths of a cent
Cents100(d) == Coef(d, 4)

\* ASP x (m100 / 100) x bill units - cost, in hundredths of a cent
ExactMedical(d, m100) ==
    Cents(Val(d.asp)) * m100 * d.bill_units_per_package - Cents(d.contract_cost) * 100

\* C10: with a billing code and a sales-price benchmark the three medical
\* margins are exactly ASP x m x bill units - cost for m = 1.04, 1.06 and
\* 1 + commercial markup (default 0.15); cost 150.00, ASP 2800.00 and 2 units
\* give 5786.00 and 6290.00.
C10_MedicalMarginsExact ==
    /\ (mres.kind = "analysis5" /\ has_medical_path(drug)) =>
          LET a == mres.analysis
          IN  /\ IsSome(a.medical_medicaid_margin)
              /\ IsSome(a.medical_medicare_margin)
              /\ IsSome(a.medical_commercial_margin)
              /\ Cents100(Val(a.medical_medicaid_margin)) = ExactMedical(drug, 104)
              /\ Cents100(Val(a.medical_medicare_margin)) = ExactMedical(drug, 106)
              /\ Cents100(Val(a.medical_commercial_margin))
                    = ExactMedical(drug, 100 + Cents(params.commercial_asp_pct))
              /\ ( /\ DecEq(drug.contract_cost, Dec(150, 0))
                   /\ DecEq(Val(drug.asp), Dec(2800, 0))
                   /\ drug.bill_units_per_package = 2
                   /\ DecEq(params.commercial_asp_pct, Dec(15, 2)) ) =>
                    /\ DecEq(Val(a.medical_medicare_margin), Dec(578600, 2))
                    /\ DecEq(Val(a.medical_commercial_margin), Dec(629000, 2))
    /\ (mres.kind = "analysis" /\ has_medical_path(drug)) =>
          /\ Cents100(Val(mres.analysis.medicare_margin)) = ExactMedical(drug, 106)
          /\ Cents100(Val(mres.analysis.commercial_margin)) = ExactMedical(drug, 115)

C10_Witness ==
    /\ mres.kind = "analysis5"
    /\ has_medical_path(drug)
    /\ drug.bill_units_per_package = 2
    /\ DecEq(params.commercial_asp_pct, Dec(15, 2))
    /\ DecEq(Val(mres.analysis.medical_medicare_margin), Dec(578600, 2))
    /\ DecEq(Val(mres.analysis.medical_commercial_margin), Dec(629000, 2))

\* C5: an absent optional value is never reported as zero and a present zero
\* is never reported as absent, in the results of the margin engine, of the
\* sensitivity sweep and of the display record.
C5_AbsentNeverConflatedWithZero ==
    /\ mres.kind \in AnalysisKinds =>
          /\ IsSome(mres.analysis.medicare_margin) <=> has_medical_path(drug)
          /\ IsSome(mres.analysis.commercial_margin) <=> has_medical_path(drug)
    /\ mres.kind = "sensitivity" =>
          \A i \in DOMAIN mres.rows :
              /\ IsNone(calculate_medicare_margin(drug)) => ~DecIsZero(mres.rows[i].medicare)
              /\ IsNone(calculate_commercial_margin(drug)) => ~DecIsZero(mres.rows[i].commercial)
    /\ mres.kind = "display" =>
          /\ IsSome(mres.display.asp) <=> IsSome(mres.analysis.drug.asp)
          /\ IsSome(mres.display.medicare_margin) <=> IsSome(mres.analysis.medicare_margin)
          /\ IsSome(mres.display.commercial_margin) <=> IsSome(mres.analysis.commercial_margin)

-----------------------------------------------------------------------------
(* The margin engine called with a capture rate outside 0.0-1.0 *)

\* parameter sets with a negative capture rate, and one with a rate above 1
MalformedParamSets ==
    {Param(Dec(-10, 2), DEFAULT_DISPENSE_FEE, DEFAULT_MEDICAID_MARKUP,
           DEFAULT_COMMERCIAL_ASP_PCT),
     Param(Dec(-100, 2), Dec(10, 0), Dec(5, 2), Dec(4, 2)),
     Param(Dec(150, 2), DEFAULT_DISPENSE_FEE, DEFAULT_MEDICAID_MARKUP,
           DEFAULT_COMMERCIAL_ASP_PCT)}

InitConfig ==
    /\ drug \in Drugs
    /\ params \in MalformedParamSets
    /\ mres = NoResult
    /\ IdlePenny
    /\ IdleJoin
    /\ IdleRisk
    /\ IdleCall

\* calculate_retail_margin(drug, capture_rate)
CalculateRetailMargin ==
    /\ mres = NoResult
    /\ LET margins == calculate_retail_margin(drug, params.capture_rate)
       IN  mres' = [kind |-> "retail", gross_margin |-> margins[1],
                    net_margin |-> margins[2]]
    /\ UNCHANGED <<drug, params, pennyVars, joinVars, riskVars, callVars>>

\* calculate_margin_sensitivity(drug, [capture_rate])
SensitivityAtRate ==
    /\ mres = NoResult
    /\ mres' = [kind |-> "sensitivity",
                rows |-> calculate_margin_sensitivity(drug, Some(<<params.capture_rate>>))]
    /\ UNCHANGED <<drug, params, pennyVars, joinVars, riskVars, callVars>>

NextConfig ==
    \/ CalculateRetailMargin
    \/ AnalyzeDrugMargin
    \/ Analyze5Pathway
    \/ SensitivityAtRate

SpecConfig == InitConfig /\ [][NextConfig]_vars

\* C15: a negative capture rate is rejected before any computation: no
\* entry point of the margin engine (calculate_retail_margin,
\* analyze_drug_margin, analyze_drug_margin_5pathway,
\* calculate_margin_sensitivity) returns a margin result for it.
C15_NegativeCaptureRateRejected ==
    DecLt(params.capture_rate, Dec(0, 0)) =>
        mres.kind \notin {"retail", "analysis", "analysis5", "sensitivity"}

-----------------------------------------------------------------------------
(* NDC strings: ingest/normalizers.py normalize_ndc and Drug.ndc_normalized *)
(*                                                                         *)
(* A Python string is the sequence of its characters; the argument of      *)
(* normalize_ndc is an optional string, None or Some(string).              *)

MaxNdcTail == 3

DigitChars == <<"0", "1", "2", "3", "4", "5", "6", "7", "8", "9">>

IsDigit(ch) == \E i \in DOMAIN DigitChars : DigitChars[i] = ch

\* re.sub(r"[^0-9]", "", s)
re_sub_non_digits(s) == SelectSeq(s, IsDigit)

\* s.replace(old, "") for a one-character old
replace_char(s, old) ==
    LET Keep(ch) == ch # old
    IN  SelectSeq(s, Keep)

\* str.strip(): leading and trailing whitespace goes
RECURSIVE strip(_)
strip(s) ==
    IF s = <<>> THEN s
    ELSE IF Head(s) = " " THEN strip(Tail(s))
    ELSE IF s[Len(s)] = " " THEN strip(SubSeq(s, 1, Len(s) - 1))
    ELSE s

\* str.zfill(width): zeros on the left, after a leading sign if there is one
zfill(s, width) ==
    LET pad == [i \in 1..(width - Len(s)) |-> "0"]
    IN  IF Len(s) >= width THEN s
        ELSE IF s # <<>> /\ Head(s) \in {"+", "-"} THEN <<Head(s)>> \o pad \o Tail(s)
        ELSE pad \o s

\* s[-n:]
last_chars(s, n) == IF Len(s) <= n THEN s ELSE SubSeq(s, Len(s) - n + 1, Len(s))

normalize_ndc(ndc) ==
    IF IsNone(ndc) THEN <<>>
    ELSE LET cleaned == re_sub_non_digits(Val(ndc))
         IN  last_chars(zfill(cleaned, 11), 11)

\* the property ndc_normalized of a Drug whose ndc is this string
Drug_ndc_normalized(ndc) ==
    LET cleaned == replace_char(replace_char(ndc, "-"), " ")
    IN  last_chars(zfill(cleaned, 11), 11)

\* the characters an identifier is spelled with here: digits, the dash and
\* the space of the usual spellings, and a dot for every other character
NdcChars == {"0", "7", "-", " ", "."}

NdcTails == UNION {[1..n -> NdcChars] : n \in 0..MaxNdcTail}

\* nothing, nine digits, or eleven digits before the tail: the results are
\* padded, exact, or cut
NdcHeads == {<<>>,
             <<"1", "2", "3", "4", "5", "6", "7", "8", "9">>,
             <<"1", "2", "3", "4", "5", "6", "7", "8", "9", "0", "1">>}

NdcInputs == {None} \cup {Some(h \o t) : h \in NdcHeads, t \in NdcTails}

InitNdc ==
    /\ IdleMargin
    /\ IdlePenny
    /\ IdleJoin
    /\ IdleRisk
    /\ arg \in {[fn |-> "ndc", ndc |-> x] : x \in NdcInputs}
    /\ ret = NoResult

\* normalize_ndc(ndc), and normalize_ndc of what it returned
NormalizeNdc ==
    /\ arg.fn = "ndc"
    /\ ret = NoResult
    /\ LET out == normalize_ndc(arg.ndc)
       IN  ret' = [kind |-> "normalize_ndc", value |-> out,
                   again |-> normalize_ndc(Some(out))]
    /\ UNCHANGED <<arg, marginVars, pennyVars, joinVars, riskVars>>

\* Drug(ndc=...).ndc_normalized; the field ndc of a Drug is a string
DrugNdcNormalized ==
    /\ arg.fn = "ndc"
    /\ ret = NoResult
    /\ IsSome(arg.ndc)
    /\ ret' = [kind |-> "ndc_normalized", value |-> Drug_ndc_normalized(Val(arg.ndc))]
    /\ UNCHANGED <<arg, marginVars, pennyVars, joinVars, riskVars>>

NextNdc ==
    \/ NormalizeNdc
    \/ DrugNdcNormalized

SpecNdc == InitNdc /\ [][NextNdc]_vars

-----------------------------------------------------------------------------
(* Properties of the identifier normalizers *)

\* the digits of an optional string, right-aligned in eleven places over zeros
RightAligned11(ndc) ==
    LET d == IF IsNone(ndc) THEN <<>> ELSE re_sub_non_digits(Val(ndc))
    IN  [i \in 1..11 |-> IF Len(d) - 11 + i >= 1 THEN d[Len(d) - 11 + i] ELSE "0"]

Canonical(ndc, value, again) ==
    /\ Len(value) = 11
    /\ \A i \in DOMAIN value : IsDigit(value[i])
    /\ value = RightAligned11(ndc)
    /\ again = value

\* C11: normalize_ndc is total and canonical: for every input, the empty
\* and the missing one included, it returns exactly 11 decimal digits, the
\* digits of the input left-padded with zeros to 11 or cut to the rightmost
\* 11, and normalizing the returned value returns it unchanged.
C11_NormalizeTotalCanonical ==
    ret.kind = "normalize_ndc" => Canonical(arg.ndc, ret.value, ret.again)

\* what does hold: normalize_ndc is canonical on every string
NormalizeCanonicalOnStrings ==
    (ret.kind = "normalize_ndc" /\ IsSome(arg.ndc)) =>
        Canonical(arg.ndc, ret.value, ret.again)

\* C12: for every identifier string, the ndc_normalized property of the
\* Drug model equals normalize_ndc of the same string.
C12_DrugKeyEqualsNormalizeNdc ==
    ret.kind = "ndc_normalized" => ret.value = normalize_ndc(arg.ndc)

\* what does hold: the two agree on strings of digits, dashes and spaces
DrugKeyAgreesOnUsualSpellings ==
    (/\ ret.kind = "ndc_normalized"
     /\ \A i \in DOMAIN Val(arg.ndc) :
           IsDigit(Val(arg.ndc)[i]) \/ Val(arg.ndc)[i] \in {"-", " "})
        => ret.value = normalize_ndc(arg.ndc)

-----------------------------------------------------------------------------
(* risk/penny_pricing.py and the opportunity list of ui/pages/dashboard.py  *)
(*                                                                         *)
(* The NDC strings of the tables are NdcStr(n, dashed): the eleven digits  *)
(* of product n, spelled with dashes (5-4-2) or without.                   *)
(* A penny_pricing cell is one of "TRUE", "FALSE" (Python bools), "Yes",   *)
(* "No" (strings) or "NULL" (None / column absent).                        *)

MaxNdc == 2
MaxNadacRows == 1
MaxOpps == 2

HIGH_DISCOUNT_THRESHOLD == Dec(950, 1)

NdcStr(digits, dashed) ==
    IF dashed
        THEN <<"0", "0", "0", "7", "4", "-", "4", "3", "3", "9", "-", "0", DigitChars[digits + 1]>>
    ELSE <<"0", "0", "0", "7", "4", "4", "3", "3", "9", "0", DigitChars[digits + 1]>>

\* ndc.replace("-", "").strip().zfill(11)[-11:], the key of the NADAC lookup
\* and of the dashboard's rows
nadac_ndc_key(ndc) == last_chars(zfill(strip(replace_char(ndc, "-")), 11), 11)

\* Python truthiness of a penny_pricing cell: non-empty strings and True
CellTruthy(cell) == cell \in {"TRUE", "Yes", "No"}

\* str(cell).upper() in ("YES", "TRUE", "1", "Y")
CellAffirmative(cell) == cell \in {"TRUE", "Yes"}

\* discount is not None and Decimal(str(discount)) >= HIGH_DISCOUNT_THRESHOLD
HighDiscount(discount) == IsSome(discount) /\ DecGe(Val(discount), HIGH_DISCOUNT_THRESHOLD)

\* the row of check_penny_pricing's loop is flagged
RowFlagged(df, row) ==
    \/ df.has_penny_column /\ CellTruthy(row.penny_pricing)
    \/ df.has_discount_column /\ HighDiscount(row.total_discount_340b_pct)

check_penny_pricing(df) ==
    IF ~df.has_penny_column /\ ~df.has_discount_column THEN <<>>
    ELSE LET Keep(row) == RowFlagged(df, row)
         IN  SelectSeq(df.rows, Keep)

filter_top_opportunities(opps, nadac_df, penny_ndcs_arg) ==
    LET flagged == check_penny_pricing(Val(nadac_df))
        penny_ndcs == IF IsNone(penny_ndcs_arg) /\ IsSome(nadac_df)
                         THEN {flagged[i].ndc : i \in DOMAIN flagged}
                      ELSE IF IsNone(penny_ndcs_arg) THEN {}
                      ELSE Val(penny_ndcs_arg)
        Keep(opp) == ~(opp.ndc \in penny_ndcs \/ opp.penny_pricing)
    IN  SelectSeq(opps, Keep)

\* the entry build_nadac_lookup leaves under a normalized NDC: the last row
\* spelled with these digits wins; None when no row has them
build_nadac_lookup(df, ndc_normalized) ==
    LET hits == {i \in DOMAIN df.rows : nadac_ndc_key(df.rows[i].ndc) = ndc_normalized}
        last == CHOOSE i \in hits : \A k \in hits : k <= i
        row  == df.rows[last]
    IN  IF hits = {} THEN None
        ELSE Some([is_penny_priced |->
                      \/ df.has_penny_column /\ CellTruthy(row.penny_pricing)
                                             /\ CellAffirmative(row.penny_pricing)
                      \/ df.has_discount_column /\ HighDiscount(row.total_discount_340b_pct)])

\* dashboard._row_to_drug and the analysis made of it, as far as the
\* opportunity list reads them: the NDC, the flags, and the margin delta
\* (the delta itself is the margin engine's, modelled above)
row_to_analysis(row, nadac_df) ==
    LET ndc_normalized == nadac_ndc_key(row.ndc)
        nadac_info == IF IsSome(nadac_df)
                         THEN build_nadac_lookup(Val(nadac_df), ndc_normalized)
                      ELSE None
    IN  [ndc |-> row.ndc,
         ira_flag |-> FALSE,
         penny_pricing_flag |-> IsSome(nadac_info) /\ Val(nadac_info).is_penny_priced,
         margin_delta |-> row.margin]

\* analyses.sort(key=lambda a: a.margin_delta, reverse=True)
SortByDelta(analyses) ==
    LET keyed  == [i \in DOMAIN analyses |-> Option(i, analyses[i].margin_delta)]
        sorted == SortDesc(keyed)
    IN  [i \in DOMAIN analyses |-> analyses[sorted[i].path]]

_calculate_opportunities(catalog_df, nadac_df) ==
    SortByDelta([i \in DOMAIN catalog_df |-> row_to_analysis(catalog_df[i], nadac_df)])

\* _apply_filters and _apply_filters_with_context with an empty search query
_apply_filters(analyses, show_ira_only, hide_penny, min_delta) ==
    LET KeepIra(a)   == ~show_ira_only \/ a.ira_flag
        KeepPenny(a) == ~hide_penny \/ ~a.penny_pricing_flag
        KeepDelta(a) == DecGe(a.margin_delta, min_delta)
    IN  SelectSeq(SelectSeq(SelectSeq(analyses, KeepIra), KeepPenny), KeepDelta)

-----------------------------------------------------------------------------
(* Floor pricing as a state machine: Init draws a NADAC table and an       *)
(* opportunity list; each action is one entry point applied to them.       *)

NdcStrs == {NdcStr(n, dashed) : n \in 1..MaxNdc, dashed \in BOOLEAN}

PennyCells == {"TRUE", "FALSE", "Yes", "No", "NULL"}

DiscountOpts == {None, Some(Dec(9499, 2)), Some(Dec(950, 1))}

NadacRows ==
    [ndc : NdcStrs, penny_pricing : PennyCells, total_discount_340b_pct : DiscountOpts]

RECURSIVE SeqsUpTo(_, _)
\* the lists over S of length at most n
SeqsUpTo(S, n) ==
    IF n = 0 THEN {<<>>}
    ELSE LET shorter == SeqsUpTo(S, n - 1)
         IN  shorter \cup {Append(q, x) : q \in {r \in shorter : Len(r) = n - 1}, x \in S}

\* a cell of an absent column reads as None
NadacTables ==
    {df \in [has_penny_column : BOOLEAN, has_discount_column : BOOLEAN,
             rows : SeqsUpTo(NadacRows, MaxNadacRows)] :
        \A i \in DOMAIN df.rows :
            /\ ~df.has_penny_column => df.rows[i].penny_pricing = "NULL"
            /\ ~df.has_discount_column => df.rows[i].total_discount_340b_pct = None}

Margins == {Dec(0, 0), Dec(150, 0)}

Opportunities == [ndc : NdcStrs, penny_pricing : BOOLEAN, margin : Margins]

MinDeltas == {Dec(0, 0), Dec(100, 0)}

InitPenny ==
    /\ IdleMargin
    /\ IdleJoin
    /\ IdleRisk
    /\ IdleCall
    /\ nadac \in {None} \cup {Some(df) : df \in NadacTables}
    /\ opportunities \in SeqsUpTo(Opportunities, MaxOpps)
    /\ fout = NoResult

\* filter_top_opportunities(opportunities, nadac_df)
FilterTopOpportunities ==
    /\ fout = NoResult
    /\ fout' = [kind |-> "filtered",
                list |-> filter_top_opportunities(opportunities, nadac, None)]
    /\ UNCHANGED <<nadac, opportunities, marginVars, joinVars, riskVars, callVars>>

\* check_penny_pricing(nadac_df)
CheckPennyPricing ==
    /\ fout = NoResult
    /\ IsSome(nadac)
    /\ fout' = [kind |-> "flagged", list |-> check_penny_pricing(Val(nadac))]
    /\ UNCHANGED <<nadac, opportunities, marginVars, joinVars, riskVars, callVars>>

\* render_dashboard_page: the ranked list under the filter controls; the
\* checkbox "Hide penny pricing drugs" is unticked until the user ticks it
RenderDashboard ==
    /\ fout = NoResult
    /\ \E show_ira_only \in BOOLEAN, hide_penny \in BOOLEAN, min_delta \in MinDeltas :
          fout' = [kind |-> "dashboard",
                   hide_penny |-> hide_penny,
                   list |-> _apply_filters(_calculate_opportunities(opportunities, nadac),
                                           show_ira_only, hide_penny, min_delta)]
    /\ UNCHANGED <<nadac, opportunities, marginVars, joinVars, riskVars, callVars>>

NextPenny ==
    \/ FilterTopOpportunities
    \/ CheckPennyPricing
    \/ RenderDashboard

SpecPenny == InitPenny /\ [][NextPenny]_vars

-----------------------------------------------------------------------------
(* Properties of the floor-pricing filters *)

\* the NADAC table marks the product of this NDC floor-priced: some row with
\* its digits carries an affirmative flag or a discount at the threshold
NadacMarksFloorPriced(nadac_df, ndc) ==
    /\ IsSome(nadac_df)
    /\ \E i \in DOMAIN Val(nadac_df).rows :
          LET row == Val(nadac_df).rows[i]
          IN  /\ nadac_ndc_key(row.ndc) = nadac_ndc_key(ndc)
              /\ \/ Val(nadac_df).has_penny_column /\ CellAffirmative(row.penny_pricing)
                 \/ Val(nadac_df).has_discount_column
                    /\ HighDiscount(row.total_discount_340b_pct)

\* C6: no floor-priced product is in a top-opportunity ranking: the output
\* of filter_top_opportunities holds no product the NADAC table marks
\* floor-priced, and the dashboard's ranked list holds no product whose
\* floor-pricing flag is set.
C6_NoFloorPricedInRanking ==
    /\ fout.kind = "filtered" =>
          \A i \in DOMAIN fout.list : ~NadacMarksFloorPriced(nadac, fout.list[i].ndc)
    /\ fout.kind = "dashboard" =>
          \A i \in DOMAIN fout.list : ~fout.list[i].penny_pricing_flag

-----------------------------------------------------------------------------
(* The joins of ingest/normalizers.py and the dashboard's HCPCS lookup.     *)
(*                                                                         *)
(* A catalog row is [row, ndc]: its position in the catalog (standing for  *)
(* the row's other columns) and its normalized NDC.  A crosswalk row is    *)
(* [ndc, hcpcs] with an optional HCPCS code, an ASP pricing row is         *)
(* [hcpcs, payment_limit] with an optional Payment Limit.                  *)

MaxCatalogRows == 3
MaxCrosswalkRows == 2
MaxAspRows == 2
FloatPlaces == 4

RECURSIVE RowsAt(_, _)
\* the rows of a table at the positions in I, in order
RowsAt(rows, I) ==
    IF rows = <<>> THEN <<>>
    ELSE RowsAt(SubSeq(rows, 1, Len(rows) - 1), I)
         \o (IF Len(rows) \in I THEN <<rows[Len(rows)]>> ELSE <<>>)

\* DataFrame.unique(subset=[key]) with the default keep="any": one row per
\* key value stays, and which one is not specified
unique(rows, subset) ==
    LET keys  == {rows[i][subset] : i \in DOMAIN rows}
        picks == {f \in [keys -> DOMAIN rows] : \A k \in keys : rows[f[k]][subset] = k}
    IN  {RowsAt(rows, {f[k] : k \in keys}) : f \in picks}

RECURSIVE Flatten(_)
Flatten(lists) ==
    IF lists = <<>> THEN <<>> ELSE Head(lists) \o Flatten(Tail(lists))

\* catalog_df.join(crosswalk_subset, how="left"): one output row per
\* matching right row, one row of nulls when there is none
LeftJoinCrosswalk(catalog_df, crosswalk_subset) ==
    Flatten([i \in DOMAIN catalog_df |->
        LET SameNdc(x) == x.ndc = catalog_df[i].ndc
            hits == SelectSeq(crosswalk_subset, SameNdc)
        IN  IF hits = <<>>
            THEN <<[row |-> catalog_df[i].row, ndc |-> catalog_df[i].ndc, hcpcs |-> None]>>
            ELSE [k \in DOMAIN hits |->
                    [row |-> catalog_df[i].row, ndc |-> catalog_df[i].ndc,
                     hcpcs |-> hits[k].hcpcs]]])

\* matched and orphans of a joined table
SplitJoined(joined) ==
    LET HasCode(r) == IsSome(r.hcpcs)
        NoCode(r)  == IsNone(r.hcpcs)
    IN  [matched |-> SelectSeq(joined, HasCode), orphans |-> SelectSeq(joined, NoCode)]

\* mutant: the crosswalk is joined as it is, without unique()
join_catalog_to_crosswalk_NoUnique(catalog_df, crosswalk_df) ==
    {SplitJoined(LeftJoinCrosswalk(catalog_df, crosswalk_df))}

\* the results join_catalog_to_crosswalk can return
join_catalog_to_crosswalk(catalog_df, crosswalk_df) ==
    {SplitJoined(LeftJoinCrosswalk(catalog_df, sub)) : sub \in unique(crosswalk_df, "ndc")}

\* the results join_asp_pricing can return: Payment Limit joined on the
\* HCPCS code (a null code matches nothing) and renamed to ASP
join_asp_pricing(joined_df, asp_df) ==
    {Flatten([i \in DOMAIN joined_df |->
        LET SameCode(x) == IsSome(joined_df[i].hcpcs) /\ x.hcpcs = Val(joined_df[i].hcpcs)
            hits == SelectSeq(sub, SameCode)
        IN  IF hits = <<>>
            THEN <<[row |-> joined_df[i].row, ndc |-> joined_df[i].ndc,
                    hcpcs |-> joined_df[i].hcpcs, asp |-> None]>>
            ELSE [k \in DOMAIN hits |->
                    [row |-> joined_df[i].row, ndc |-> joined_df[i].ndc,
                     hcpcs |-> joined_df[i].hcpcs, asp |-> hits[k].payment_limit]]])
     : sub \in unique(asp_df, "hcpcs")}

\* a / b rounded to the nearest integer, ties to even
RoundDiv(a, b) ==
    LET q == a \div b
        r == a % b
    IN  IF 2 * r > b \/ (2 * r = b /\ q % 2 = 1) THEN q + 1 ELSE q

\* true_asp = payment_limit / PAYMENT_LIMIT_MARKUP: the floating-point
\* quotient by 1.06, kept here to FloatPlaces decimal places
true_asp(payment_limit) ==
    Dec(RoundDiv(Coef(payment_limit, FloatPlaces) * 100, 106), FloatPlaces)

\* dashboard._build_hcpcs_lookup: for every crosswalk NDC the entry of its
\* last row; a null HCPCS code reads as the string "NONE"; a null or zero
\* Payment Limit leaves no price
_build_hcpcs_lookup(crosswalk_df, asp_df) ==
    LET Priced(code) == {i \in DOMAIN asp_df :
                            /\ asp_df[i].hcpcs = code
                            /\ Truthy(asp_df[i].payment_limit)}
        asp_lookup(code) ==
            IF Priced(code) = {} THEN None
            ELSE LET last == CHOOSE i \in Priced(code) : \A k \in Priced(code) : k <= i
                 IN  Some(true_asp(Val(asp_df[last].payment_limit)))
        Rows(n) == {i \in DOMAIN crosswalk_df : crosswalk_df[i].ndc = n}
    IN  [n \in {crosswalk_df[i].ndc : i \in DOMAIN crosswalk_df} |->
            LET last == CHOOSE i \in Rows(n) : \A k \in Rows(n) : k <= i
                code == IF IsSome(crosswalk_df[last].hcpcs)
                           THEN Val(crosswalk_df[last].hcpcs) ELSE "NONE"
            IN  [hcpcs_code |-> code, asp |-> asp_lookup(code)]]

-----------------------------------------------------------------------------
(* The joins as a state machine: Init draws the three tables, each action   *)
(* is one entry point applied to them.                                      *)

HcpcsCodes == {"J0135", "J9035"}

CrosswalkTables ==
    SeqsUpTo([ndc : {NdcStr(n, FALSE) : n \in 1..MaxNdc},
              hcpcs : {None} \cup {Some(h) : h \in HcpcsCodes}],
             MaxCrosswalkRows)

\* a catalog of up to MaxCatalogRows rows and a crosswalk; no pricing file
InitJoin ==
    /\ IdleMargin
    /\ IdlePenny
    /\ IdleRisk
    /\ IdleCall
    /\ \E n \in 0..MaxCatalogRows :
          catalog \in {[i \in 1..n |-> [row |-> i, ndc |-> NdcStr(f[i], FALSE)]] :
                          f \in [1..n -> 1..MaxNdc]}
    /\ crosswalk \in CrosswalkTables
    /\ asp_pricing = <<>>
    /\ jres = NoResult

\* a catalog that lists every product once, a crosswalk and a pricing file
InitSilver ==
    /\ IdleMargin
    /\ IdlePenny
    /\ IdleRisk
    /\ IdleCall
    /\ catalog = [i \in 1..MaxNdc |-> [row |-> i, ndc |-> NdcStr(i, FALSE)]]
    /\ crosswalk \in CrosswalkTables
    /\ asp_pricing \in SeqsUpTo([hcpcs : HcpcsCodes,
                                 payment_limit : {None, Some(Dec(1060, 2)), Some(Dec(2800, 2))}],
                                MaxAspRows)
    /\ jres = NoResult

\* join_catalog_to_crosswalk(catalog, crosswalk)
JoinCatalogToCrosswalk ==
    /\ jres = NoResult
    /\ \E r \in join_catalog_to_crosswalk(catalog, crosswalk) :
          jres' = [kind |-> "join", matched |-> r.matched, orphans |-> r.orphans]
    /\ UNCHANGED <<catalog, crosswalk, asp_pricing, marginVars, pennyVars, riskVars, callVars>>

\* build_silver_dataset on normalized inputs: the crosswalk join, then the
\* ASP join of its matched rows
BuildSilverDataset ==
    /\ jres = NoResult
    /\ \E r \in join_catalog_to_crosswalk(catalog, crosswalk) :
       \E silver \in join_asp_pricing(r.matched, asp_pricing) :
          jres' = [kind |-> "silver", silver |-> silver, orphans |-> r.orphans]
    /\ UNCHANGED <<catalog, crosswalk, asp_pricing, marginVars, pennyVars, riskVars, callVars>>

\* _build_hcpcs_lookup(crosswalk, asp_pricing)
BuildHcpcsLookup ==
    /\ jres = NoResult
    /\ jres' = [kind |-> "lookup", lookup |-> _build_hcpcs_lookup(crosswalk, asp_pricing)]
    /\ UNCHANGED <<catalog, crosswalk, asp_pricing, marginVars, pennyVars, riskVars, callVars>>

NextSilver ==
    \/ BuildSilverDataset
    \/ BuildHcpcsLookup

SpecJoin == InitJoin /\ [][JoinCatalogToCrosswalk]_vars

SpecSilver == InitSilver /\ [][NextSilver]_vars

-----------------------------------------------------------------------------
(* Properties of the joins *)

\* the identifier sets N of the catalog and M of the crosswalk
CatalogIds == {catalog[i].ndc : i \in DOMAIN catalog}

CrosswalkIds == {crosswalk[i].ndc : i \in DOMAIN crosswalk}

\* |N /\ M| matched rows and |N \ M| orphan rows
JoinCounts ==
    /\ Len(jres.matched) = Cardinality(CatalogIds \cap CrosswalkIds)
    /\ Len(jres.orphans) = Cardinality(CatalogIds \ CrosswalkIds)

\* every catalog row is in exactly one of the two outputs, exactly once
JoinPartitions ==
    LET out == jres.matched \o jres.orphans
    IN  /\ Len(out) = Len(catalog)
        /\ \A i \in DOMAIN catalog :
              Cardinality({k \in DOMAIN out : out[k].row = catalog[i].row
                                             /\ out[k].ndc = catalog[i].ndc}) = 1

\* C7 as stated: |N /\ M| matched rows and |N \ M| orphan rows, every catalog
\* row in exactly one of the two outputs, no duplication by a repeated
\* crosswalk identifier.
C7_JoinCountsBySets ==
    jres.kind = "join" => JoinCounts /\ JoinPartitions

\* C7: every catalog row lands in exactly one of matched and orphans, exactly
\* once, however often its identifier occurs in the crosswalk; a matched row
\* carries the code of a crosswalk row of its identifier, an orphan has no
\* crosswalk row or one without a code; and when the catalog identifiers are
\* pairwise distinct and every crosswalk row carries a code, the outputs have
\* |N /\ M| and |N \ M| rows.
C7_JoinPartitionsCatalog ==
    jres.kind = "join" =>
        /\ JoinPartitions
        /\ \A k \in DOMAIN jres.matched :
              /\ IsSome(jres.matched[k].hcpcs)
              /\ \E i \in DOMAIN crosswalk :
                    /\ crosswalk[i].ndc = jres.matched[k].ndc
                    /\ crosswalk[i].hcpcs = jres.matched[k].hcpcs
        /\ \A k \in DOMAIN jres.orphans :
              /\ IsNone(jres.orphans[k].hcpcs)
              /\ \/ jres.orphans[k].ndc \notin CrosswalkIds
                 \/ \E i \in DOMAIN crosswalk :
                       /\ crosswalk[i].ndc = jres.orphans[k].ndc
                       /\ IsNone(crosswalk[i].hcpcs)
        /\ (/\ Cardinality(CatalogIds) = Len(catalog)
            /\ \A i \in DOMAIN crosswalk : IsSome(crosswalk[i].hcpcs)) => JoinCounts

\* a join of three catalog rows, two of them matched through an identifier
\* the crosswalk lists twice, one an orphan
C7_Witness ==
    /\ jres.kind = "join"
    /\ Len(catalog) = 3
    /\ Len(crosswalk) = 2
    /\ Cardinality(CrosswalkIds) = 1
    /\ IsSome(crosswalk[1].hcpcs)
    /\ IsSome(crosswalk[2].hcpcs)
    /\ crosswalk[1].hcpcs # crosswalk[2].hcpcs
    /\ Len(jres.matched) = 2
    /\ Len(jres.orphans) = 1

\* asp is the payment limit divided by 1.06, to the precision of the quotient
BackCalculated(asp, payment_limit) ==
    DecGe(Dec(1, FloatPlaces),
          DecAbs(DecSub(DecMul(asp, MEDICARE_ASP_MULTIPLIER), payment_limit)))

\* asp is back-calculated from a Payment Limit the pricing file lists for code
AttachedFrom(asp, code) ==
    \E i \in DOMAIN asp_pricing :
        /\ asp_pricing[i].hcpcs = code
        /\ IsSome(asp_pricing[i].payment_limit)
        /\ BackCalculated(asp, Val(asp_pricing[i].payment_limit))

\* C8: wherever a Payment Limit is attached to a product as its ASP (the ASP
\* column of join_asp_pricing, the asp of _build_hcpcs_lookup), the attached
\* ASP is the Payment Limit divided by 1.06.
C8_AspIsPaymentLimitOverMarkup ==
    /\ jres.kind = "silver" =>
          \A k \in DOMAIN jres.silver :
              IsSome(jres.silver[k].asp) =>
                  AttachedFrom(Val(jres.silver[k].asp), Val(jres.silver[k].hcpcs))
    /\ jres.kind = "lookup" =>
          \A n \in DOMAIN jres.lookup :
              IsSome(jres.lookup[n].asp) =>
                  AttachedFrom(Val(jres.lookup[n].asp), jres.lookup[n].hcpcs_code)

-----------------------------------------------------------------------------
(* The risk lookup tables of risk/ira_flags.py and risk/manufacturer_cp.py. *)
(*                                                                         *)
(* A name is a sequence of characters (already upper-cased and stripped).  *)
(* A dict is the sequence of its [key, value] items in insertion order,    *)
(* keys distinct.  IRA_DRUGS_BY_YEAR is [id, items]: id tells the dict     *)
(* object the global is bound to, so that an iterator knows whether the    *)
(* object it walks is the one being refilled.                              *)

MaxReloads == 2

\* needle in hay (Python's substring test on str)
Contains(hay, needle) ==
    \E i \in 0..(Len(hay) - Len(needle)) : SubSeq(hay, i + 1, i + Len(needle)) = needle

DictHas(dict, key) == \E i \in DOMAIN dict : dict[i].key = key

\* dict.get(key)
DictGet(dict, key) ==
    IF DictHas(dict, key)
    THEN Some(dict[CHOOSE i \in DOMAIN dict : dict[i].key = key].value)
    ELSE None

\* dict[key] = value: a new key goes to the end, a known key keeps its place
DictPut(dict, key, value) ==
    IF DictHas(dict, key)
    THEN [i \in DOMAIN dict |-> IF dict[i].key = key
                                THEN [key |-> key, value |-> value] ELSE dict[i]]
    ELSE Append(dict, [key |-> key, value |-> value])

\* str.upper() on the letters names are spelled with here
upper(s) == [i \in DOMAIN s |-> IF s[i] = "a" THEN "A"
                                ELSE IF s[i] = "b" THEN "B" ELSE s[i]]

RECURSIVE PutYear(_, _, _)
\* for drug in drugs: by_year[drug.upper()] = year
PutYear(by_year, drugs, year) ==
    IF drugs = <<>> THEN by_year
    ELSE PutYear(DictPut(by_year, upper(Head(drugs).key), year), Tail(drugs), year)

\* the combined lookup a completed reload leaves
BuildByYear(d26, d27) == PutYear(PutYear(<<>>, d26, 2026), d27, 2027)

IraResult(is_ira_drug, ira_year, drug_name, description) ==
    [status |-> "ok", is_ira_drug |-> is_ira_drug, ira_year |-> ira_year,
     drug_name |-> drug_name, description |-> description]

\* an exception leaving the lookup
Raised(exception) ==
    [status |-> exception, is_ira_drug |-> FALSE, ira_year |-> None,
     drug_name |-> None, description |-> None]

\* the mutation of the partial match that tests one direction only
PartialMatch_ListedInName(ira_drug, name_upper) == Contains(name_upper, ira_drug)

\* ira_drug in name_upper or name_upper in ira_drug
PartialMatch(ira_drug, name_upper) ==
    Contains(name_upper, ira_drug) \/ Contains(ira_drug, name_upper)

\* IRA_2026_DRUGS.get(name) or IRA_2027_DRUGS.get(name)
GetDescription(d26, d27, name) ==
    IF IsSome(DictGet(d26, name)) THEN DictGet(d26, name) ELSE DictGet(d27, name)

\* check_ira_status run alone against one set of tables
check_ira_status(drug_name, by_year, d26, d27) ==
    IF drug_name = <<>> THEN IraResult(FALSE, None, None, None)
    ELSE LET name_upper == strip(upper(drug_name))
             hits == {i \in DOMAIN by_year : PartialMatch(by_year[i].key, name_upper)}
             first == CHOOSE i \in hits : \A k \in hits : i <= k
         IN  IF DictHas(by_year, name_upper)
                THEN IraResult(TRUE, DictGet(by_year, name_upper), Some(name_upper),
                               GetDescription(d26, d27, name_upper))
             ELSE IF hits = {} THEN IraResult(FALSE, None, None, None)
             ELSE IraResult(TRUE, Some(by_year[first].value), Some(by_year[first].key),
                            GetDescription(d26, d27, by_year[first].key))

RECURSIVE LoadIraRows(_, _, _)
\* the loop of load_ira_drugs_from_dataframe (and of load_ira_drugs_from_csv)
\* over the rows left to read
LoadIraRows(rows, ira_2026, ira_2027) ==
    IF rows = <<>> THEN [d26 |-> ira_2026, d27 |-> ira_2027]
    ELSE LET row == Head(rows)
             drug_name == strip(upper(row.drug_name))
         IN  IF drug_name = <<>> THEN LoadIraRows(Tail(rows), ira_2026, ira_2027)
             ELSE IF row.ira_year = 2026
                THEN LoadIraRows(Tail(rows), DictPut(ira_2026, drug_name, row.description),
                                 ira_2027)
             ELSE IF row.ira_year = 2027
                THEN LoadIraRows(Tail(rows), ira_2026,
                                 DictPut(ira_2027, drug_name, row.description))
             ELSE LoadIraRows(Tail(rows), ira_2026, ira_2027)

load_ira_drugs_from_dataframe(df) == LoadIraRows(df, <<>>, <<>>)

CpResult(info) == [status |-> "ok", info |-> info]

\* the loop of check_cp_restriction over one dict: the first key contained
\* in the manufacturer name
CpFuzzy(restrictions, name_upper) ==
    LET hits == {i \in DOMAIN restrictions : Contains(name_upper, restrictions[i].key)}
        first == CHOOSE i \in hits : \A k \in hits : i <= k
    IN  IF hits = {} THEN CpResult(None) ELSE CpResult(Some(restrictions[first].value))

\* check_cp_restriction run alone against one table
check_cp_restriction(manufacturer_name, restrictions) ==
    IF restrictions = <<>> THEN CpResult(None)
    ELSE IF DictHas(restrictions, manufacturer_name)
    THEN CpResult(DictGet(restrictions, manufacturer_name))
    ELSE CpFuzzy(restrictions, manufacturer_name)

-----------------------------------------------------------------------------
(* The risk tables as a state machine: one thread reloads, one thread looks *)
(* up; a step is one read or one write of a module global, the grain at    *)
(* which the interpreter switches threads.                                 *)

IraDicts(description) ==
    {<<>>,
     <<[key |-> <<"A">>, value |-> description]>>,
     <<[key |-> <<"A", "B">>, value |-> description]>>}

IraVersions == [d26 : IraDicts("desc26"), d27 : IraDicts("desc27")]

CpTables ==
    {<<>>,
     <<[key |-> <<"A", "B">>, value |-> "info1"]>>,
     <<[key |-> <<"A">>, value |-> "info2"], [key |-> <<"A", "B">>, value |-> "info1"]>>}

LookupNames == {<<"A">>, <<"A", "B">>}

InitRisk ==
    /\ IdleMargin
    /\ IdlePenny
    /\ IdleJoin
    /\ IdleCall
    /\ \E v \in IraVersions, cp \in CpTables :
          /\ committed = [d26 |-> v.d26, d27 |-> v.d27, cp |-> cp]
          /\ IRA_2026_DRUGS = v.d26
          /\ IRA_2027_DRUGS = v.d27
          /\ IRA_DRUGS_BY_YEAR = [id |-> 0, items |-> BuildByYear(v.d26, v.d27)]
          /\ CP_RESTRICTIONS = cp
    /\ reload = [pc |-> "idle", count |-> 0]
    /\ lookup = [pc |-> "idle"]

LookupRunning == lookup.pc \notin {"idle", "done"}

\* the complete tables in effect now: those of the last completed reload
\* and, while a reload runs, those it is installing
InEffect ==
    {committed} \cup
    (IF reload.pc = "idle" THEN {}
     ELSE {[d26 |-> reload.d26, d27 |-> reload.d27, cp |-> committed.cp]})

\* the lookup returns (or raises)
Finished(result) ==
    [pc |-> "done", kind |-> lookup.kind, name |-> lookup.name,
     during |-> lookup.during, result |-> result]

\* reload_ira_drugs(df=df): the new dicts are loaded (lines 197-198, right side)
StartIraReload ==
    /\ reload.pc = "idle"
    /\ reload.count < MaxReloads
    /\ \E v \in IraVersions :
          /\ reload' = [pc |-> "store26", d26 |-> v.d26, d27 |-> v.d27, pos |-> 0,
                        count |-> reload.count]
          /\ lookup' = IF LookupRunning
                       THEN [lookup EXCEPT !.during =
                                @ \cup {[d26 |-> v.d26, d27 |-> v.d27, cp |-> committed.cp]}]
                       ELSE lookup
    /\ UNCHANGED <<IRA_2026_DRUGS, IRA_2027_DRUGS, IRA_DRUGS_BY_YEAR, CP_RESTRICTIONS,
                   committed, marginVars, pennyVars, joinVars, callVars>>

\* IRA_2026_DRUGS, ... = ... : the first global is bound
ReloadStore2026 ==
    /\ reload.pc = "store26"
    /\ IRA_2026_DRUGS' = reload.d26
    /\ reload' = [reload EXCEPT !.pc = "store27"]
    /\ UNCHANGED <<IRA_2027_DRUGS, IRA_DRUGS_BY_YEAR, CP_RESTRICTIONS, lookup,
                   committed, marginVars, pennyVars, joinVars, callVars>>

\* ..., IRA_2027_DRUGS = ... : the second global is bound
ReloadStore2027 ==
    /\ reload.pc = "store27"
    /\ IRA_2027_DRUGS' = reload.d27
    /\ reload' = [reload EXCEPT !.pc = "clear"]
    /\ UNCHANGED <<IRA_2026_DRUGS, IRA_DRUGS_BY_YEAR, CP_RESTRICTIONS, lookup,
                   committed, marginVars, pennyVars, joinVars, callVars>>

\* IRA_DRUGS_BY_YEAR = {} : the global is bound to a new, empty dict
ReloadClear ==
    /\ reload.pc = "clear"
    /\ IRA_DRUGS_BY_YEAR' = [id |-> IRA_DRUGS_BY_YEAR.id + 1, items |-> <<>>]
    /\ reload' = [reload EXCEPT !.pc = "fill"]
    /\ UNCHANGED <<IRA_2026_DRUGS, IRA_2027_DRUGS, CP_RESTRICTIONS, lookup,
                   committed, marginVars, pennyVars, joinVars, callVars>>

\* IRA_DRUGS_BY_YEAR[drug.upper()] = 2026 / 2027 : one iteration of the loops
ReloadFill ==
    /\ reload.pc = "fill"
    /\ reload.pos < Len(IRA_2026_DRUGS) + Len(IRA_2027_DRUGS)
    /\ LET n26 == Len(IRA_2026_DRUGS)
           key == IF reload.pos < n26 THEN IRA_2026_DRUGS[reload.pos + 1].key
                  ELSE IRA_2027_DRUGS[reload.pos + 1 - n26].key
           year == IF reload.pos < n26 THEN 2026 ELSE 2027
       IN  IRA_DRUGS_BY_YEAR' = [IRA_DRUGS_BY_YEAR EXCEPT
                                    !.items = DictPut(@, key, year)]
    /\ reload' = [reload EXCEPT !.pos = @ + 1]
    /\ UNCHANGED <<IRA_2026_DRUGS, IRA_2027_DRUGS, CP_RESTRICTIONS, lookup,
                   committed, marginVars, pennyVars, joinVars, callVars>>

\* reload_ira_drugs returns
ReloadReturn ==
    /\ reload.pc = "fill"
    /\ reload.pos = Len(IRA_2026_DRUGS) + Len(IRA_2027_DRUGS)
    /\ committed' = [committed EXCEPT !.d26 = reload.d26, !.d27 = reload.d27]
    /\ reload' = [pc |-> "idle", count |-> reload.count + 1]
    /\ UNCHANGED <<IRA_2026_DRUGS, IRA_2027_DRUGS, IRA_DRUGS_BY_YEAR, CP_RESTRICTIONS,
                   lookup, marginVars, pennyVars, joinVars, callVars>>

\* reload_cp_restrictions(df): CP_RESTRICTIONS = load_cp_restrictions(df)
ReloadCp ==
    /\ reload.pc = "idle"
    /\ reload.count < MaxReloads
    /\ \E cp \in CpTables :
          /\ CP_RESTRICTIONS' = cp
          /\ committed' = [committed EXCEPT !.cp = cp]
          /\ lookup' = IF LookupRunning
                       THEN [lookup EXCEPT !.during = @ \cup {[committed EXCEPT !.cp = cp]}]
                       ELSE lookup
    /\ reload' = [reload EXCEPT !.count = @ + 1]
    /\ UNCHANGED <<IRA_2026_DRUGS, IRA_2027_DRUGS, IRA_DRUGS_BY_YEAR,
                   marginVars, pennyVars, joinVars, callVars>>

\* what a lookup step leaves alone
lookupFrame == <<IRA_2026_DRUGS, IRA_2027_DRUGS, IRA_DRUGS_BY_YEAR, CP_RESTRICTIONS,
                 reload, committed, marginVars, pennyVars, joinVars, callVars>>

\* check_ira_status(drug_name) is called with a non-empty name
StartIraLookup ==
    /\ ~LookupRunning
    /\ \E name \in LookupNames :
          lookup' = [pc |-> "l266", kind |-> "ira", name |-> name, hit |-> name,
                     year |-> None,
                     it |-> [id |-> 0, len |-> 0, items |-> <<>>, pos |-> 0],
                     during |-> InEffect]
    /\ UNCHANGED lookupFrame

\* line 266: if name_upper in IRA_DRUGS_BY_YEAR
IraExactTest ==
    /\ lookup.pc = "l266"
    /\ lookup' = [lookup EXCEPT !.pc = IF DictHas(IRA_DRUGS_BY_YEAR.items, lookup.name)
                                       THEN "l267" ELSE "l288"]
    /\ UNCHANGED lookupFrame

\* line 267: year = IRA_DRUGS_BY_YEAR[name_upper], a KeyError when the key is gone
IraExactIndex ==
    /\ lookup.pc = "l267"
    /\ lookup' = IF DictHas(IRA_DRUGS_BY_YEAR.items, lookup.name)
                 THEN [lookup EXCEPT !.pc = "get26",
                                     !.year = DictGet(IRA_DRUGS_BY_YEAR.items, lookup.name)]
                 ELSE Finished(Raised("KeyError"))
    /\ UNCHANGED lookupFrame

\* line 288: IRA_DRUGS_BY_YEAR.items() hands out an iterator over the dict
\* the global is bound to at this moment
IraItems ==
    /\ lookup.pc = "l288"
    /\ lookup' = [lookup EXCEPT !.pc = "next",
                                !.it = [id |-> IRA_DRUGS_BY_YEAR.id,
                                        len |-> Len(IRA_DRUGS_BY_YEAR.items),
                                        items |-> IRA_DRUGS_BY_YEAR.items,
                                        pos |-> 0]]
    /\ UNCHANGED lookupFrame

\* lines 288-289: one turn of the loop; the iterator raises RuntimeError when
\* its dict has changed size, and ends the loop after the last item
IraNext ==
    /\ lookup.pc = "next"
    /\ LET live  == lookup.it.id = IRA_DRUGS_BY_YEAR.id
           items == IF live THEN IRA_DRUGS_BY_YEAR.items ELSE lookup.it.items
           item  == items[lookup.it.pos + 1]
       IN  lookup' =
              IF live /\ Len(items) # lookup.it.len
                 THEN Finished(Raised("RuntimeError"))
              ELSE IF lookup.it.pos >= Len(items)
                 THEN Finished(IraResult(FALSE, None, None, None))
              ELSE IF PartialMatch(item.key, lookup.name)
                 THEN [lookup EXCEPT !.pc = "get26", !.hit = item.key,
                                     !.year = Some(item.value)]
              ELSE [lookup EXCEPT !.it.pos = @ + 1]
    /\ UNCHANGED lookupFrame

\* lines 269 and 291, left operand: IRA_2026_DRUGS.get(...)
IraGet2026 ==
    /\ lookup.pc = "get26"
    /\ lookup' = IF IsSome(DictGet(IRA_2026_DRUGS, lookup.hit))
                 THEN Finished(IraResult(TRUE, lookup.year, Some(lookup.hit),
                                         DictGet(IRA_2026_DRUGS, lookup.hit)))
                 ELSE [lookup EXCEPT !.pc = "get27"]
    /\ UNCHANGED lookupFrame

\* lines 269 and 291, right operand: IRA_2027_DRUGS.get(...)
IraGet2027 ==
    /\ lookup.pc = "get27"
    /\ lookup' = Finished(IraResult(TRUE, lookup.year, Some(lookup.hit),
                                    DictGet(IRA_2027_DRUGS, lookup.hit)))
    /\ UNCHANGED lookupFrame

\* check_cp_restriction(manufacturer_name) with a non-empty name, up to
\* line 158: an empty table answers None
StartCpLookup ==
    /\ ~LookupRunning
    /\ \E name \in LookupNames :
          lookup' = [pc |-> IF CP_RESTRICTIONS = <<>> THEN "done" ELSE "c164",
                     kind |-> "cp", name |-> name, during |-> InEffect,
                     result |-> CpResult(None)]
    /\ UNCHANGED lookupFrame

\* line 164: if name_upper in CP_RESTRICTIONS
CpExactTest ==
    /\ lookup.pc = "c164"
    /\ lookup' = [lookup EXCEPT !.pc = IF DictHas(CP_RESTRICTIONS, lookup.name)
                                       THEN "c165" ELSE "c168"]
    /\ UNCHANGED lookupFrame

\* line 165: return CP_RESTRICTIONS[name_upper], a KeyError when the key is gone
CpExactIndex ==
    /\ lookup.pc = "c165"
    /\ lookup' = IF DictHas(CP_RESTRICTIONS, lookup.name)
                 THEN Finished(CpResult(DictGet(CP_RESTRICTIONS, lookup.name)))
                 ELSE Finished([status |-> "KeyError", info |-> None])
    /\ UNCHANGED lookupFrame

\* lines 168-172: the loop over CP_RESTRICTIONS.items(); the dict it walks
\* is never written after it is published, so the loop is one step
CpItems ==
    /\ lookup.pc = "c168"
    /\ lookup' = Finished(CpFuzzy(CP_RESTRICTIONS, lookup.name))
    /\ UNCHANGED lookupFrame

NextRisk ==
    \/ StartIraReload
    \/ ReloadStore2026
    \/ ReloadStore2027
    \/ ReloadClear
    \/ ReloadFill
    \/ ReloadReturn
    \/ ReloadCp
    \/ StartIraLookup
    \/ IraExactTest
    \/ IraExactIndex
    \/ IraItems
    \/ IraNext
    \/ IraGet2026
    \/ IraGet2027
    \/ StartCpLookup
    \/ CpExactTest
    \/ CpExactIndex
    \/ CpItems

SpecRisk == InitRisk /\ [][NextRisk]_vars

-----------------------------------------------------------------------------
(* Properties of the risk tables *)

\* the answer of the finished lookup run alone against the complete tables v
AnswerFrom(v) ==
    IF lookup.kind = "ira"
    THEN check_ira_status(lookup.name, BuildByYear(v.d26, v.d27), v.d26, v.d27)
    ELSE check_cp_restriction(lookup.name, v.cp)

\* C1: a lookup that runs while a table is reloaded answers from the complete
\* tables before the reload or from the complete tables after it: its answer
\* is the one some set of complete tables in effect during the lookup gives,
\* never that of an empty, half-filled or mixed set of tables.
C1_LookupSeesCompleteTables ==
    lookup.pc = "done" => \E v \in lookup.during : lookup.result = AnswerFrom(v)

-----------------------------------------------------------------------------
(* The statutory-negotiation table used by one thread: it is loaded at     *)
(* import, reloaded from supplied tables, and looked up in between.        *)

MaxIraRows == 2

\* the hardcoded lists used when the CSV file cannot be read
FALLBACK_IRA_DRUGS ==
    [d26 |-> <<[key |-> <<"A">>, value |-> "desc"]>>,
     d27 |-> <<[key |-> <<"B">>, value |-> "desc"]>>]

\* load_ira_drugs_from_csv: file is the table read, None when the file is
\* missing or unreadable
load_ira_drugs_from_csv(file) ==
    IF IsNone(file) THEN FALLBACK_IRA_DRUGS ELSE LoadIraRows(Val(file), <<>>, <<>>)

\* the mutation of reload_ira_drugs that keeps the combined lookup and adds to it
reload_ira_drugs_NoClear(by_year, loaded) ==
    [d26 |-> loaded.d26, d27 |-> loaded.d27,
     by_year |-> PutYear(PutYear(by_year, loaded.d26, 2026), loaded.d27, 2027)]

\* the module globals reload_ira_drugs leaves, given the combined lookup
\* before the call and the two dicts its loader returned
reload_ira_drugs(by_year, loaded) ==
    [d26 |-> loaded.d26, d27 |-> loaded.d27,
     by_year |-> PutYear(PutYear(<<>>, loaded.d26, 2026), loaded.d27, 2027)]

\* the rows of a supplied table: names in either letter case and with
\* whitespace around, a blank name, and a year that is neither 2026 nor 2027
IraRows ==
    [drug_name : {<<"a">>, <<"A", "B">>, <<"B", " ">>}, ira_year : {2026, 2027},
     description : {"desc"}]
    \cup {[drug_name |-> <<" ">>, ira_year |-> 2026, description |-> "desc"],
          [drug_name |-> <<"a">>, ira_year |-> 2025, description |-> "desc"]}

IraFrames == SeqsUpTo(IraRows, MaxIraRows)

\* the names looked up: empty, blank, in another case, with whitespace
\* around, longer and shorter than the listed names
IraQueries == {<<>>, <<" ">>, <<"a">>, <<"a", "B">>, <<" ", "a">>}

Keys(dict) == {dict[i].key : i \in DOMAIN dict}

\* import of the module: the tables are loaded from the CSV file
InitIra ==
    /\ IdleMargin
    /\ IdlePenny
    /\ IdleJoin
    /\ IdleCall
    /\ \E file \in {None} \cup {Some(df) : df \in IraFrames} :
          LET loaded == load_ira_drugs_from_csv(file)
          IN  /\ IRA_2026_DRUGS = loaded.d26
              /\ IRA_2027_DRUGS = loaded.d27
              /\ IRA_DRUGS_BY_YEAR = [id |-> 0, items |-> BuildByYear(loaded.d26, loaded.d27)]
              /\ committed = [d26 |-> loaded.d26, d27 |-> loaded.d27, cp |-> <<>>]
              /\ reload = [pc |-> "idle", count |-> 0, table |-> file, earlier |-> {}]
    /\ CP_RESTRICTIONS = <<>>
    /\ lookup = [pc |-> "idle"]

\* reload_ira_drugs, start to end: reload_ira_drugs(df=df) with a table, or
\* reload_ira_drugs(csv_path=...) with a file that cannot be read
ReloadIraDrugs ==
    /\ reload.count < MaxReloads
    /\ \E file \in {None} \cup {Some(df) : df \in IraFrames} :
          /\ LET loaded == IF IsSome(file) THEN load_ira_drugs_from_dataframe(Val(file))
                           ELSE load_ira_drugs_from_csv(file)
                 globals == reload_ira_drugs(IRA_DRUGS_BY_YEAR.items, loaded)
             IN  /\ IRA_2026_DRUGS' = globals.d26
                 /\ IRA_2027_DRUGS' = globals.d27
                 /\ IRA_DRUGS_BY_YEAR' = [id |-> IRA_DRUGS_BY_YEAR.id + 1,
                                          items |-> globals.by_year]
                 /\ committed' = [committed EXCEPT !.d26 = loaded.d26, !.d27 = loaded.d27]
          /\ reload' = [pc |-> "idle", count |-> reload.count + 1, table |-> file,
                        earlier |-> reload.earlier \cup Keys(IRA_DRUGS_BY_YEAR.items)]
    /\ UNCHANGED <<CP_RESTRICTIONS, lookup, marginVars, pennyVars, joinVars, callVars>>

\* check_ira_status(drug_name), start to end
CheckIraStatus ==
    /\ \E name \in IraQueries :
          lookup' = [pc |-> "done", kind |-> "ira", name |-> name, during |-> {committed},
                     id |-> IRA_DRUGS_BY_YEAR.id,
                     result |-> check_ira_status(name, IRA_DRUGS_BY_YEAR.items,
                                                 IRA_2026_DRUGS, IRA_2027_DRUGS)]
    /\ UNCHANGED lookupFrame

NextIra ==
    \/ ReloadIraDrugs
    \/ CheckIraStatus

SpecIra == InitIra /\ [][NextIra]_vars

-----------------------------------------------------------------------------
(* Properties of the statutory-negotiation table used by one thread *)

\* the name as the claim compares it: letter case and surrounding
\* whitespace ignored
Folded(name) == strip(upper(name))

\* one of the two names is a substring of the other (equal names included)
Related(listed, name) == Contains(name, listed) \/ Contains(listed, name)

\* the finished lookup was made against the tables now in place
LookupIsCurrent == lookup.pc = "done" /\ lookup.id = IRA_DRUGS_BY_YEAR.id

FlaggedAsClaimed ==
    /\ lookup.result.is_ira_drug <=>
          \E listed \in Keys(IRA_DRUGS_BY_YEAR.items) : Related(listed, Folded(lookup.name))
    /\ lookup.result.is_ira_drug =>
          /\ IsSome(lookup.result.drug_name)
          /\ Related(Val(lookup.result.drug_name), Folded(lookup.name))
          /\ lookup.result.ira_year =
                DictGet(IRA_DRUGS_BY_YEAR.items, Val(lookup.result.drug_name))

NamesOf(table, year) ==
    {Folded(table[i].drug_name) : i \in {k \in DOMAIN table : table[k].ira_year = year}}
        \ {<<>>}

\* C14: after reload_ira_drugs has completed, whatever was loaded before,
\* the tables hold exactly the names of the table supplied last: the 2026
\* and 2027 dicts its names of that year, the combined lookup the names of
\* both, and a lookup flags a name only through a name of that table.
C14_ReloadReplacesWholeTable ==
    (reload.count > 0 /\ IsSome(reload.table)) =>
        LET supplied == Val(reload.table)
            names == NamesOf(supplied, 2026) \cup NamesOf(supplied, 2027)
        IN  /\ Keys(IRA_2026_DRUGS) = NamesOf(supplied, 2026)
            /\ Keys(IRA_2027_DRUGS) = NamesOf(supplied, 2027)
            /\ Keys(IRA_DRUGS_BY_YEAR.items) = names
            /\ (LookupIsCurrent /\ lookup.result.is_ira_drug) =>
                  Val(lookup.result.drug_name) \in names
            /\ (LookupIsCurrent /\ lookup.name # <<>>) =>
                  (lookup.result.is_ira_drug <=>
                      \E listed \in names : Related(listed, Folded(lookup.name)))

\* after two reloads a name listed only in an earlier table is looked up
\* against a table that lists other names, and is not flagged
C14_Witness ==
    /\ reload.count = 2
    /\ IsSome(reload.table)
    /\ <<"A", "B">> \in reload.earlier
    /\ Keys(IRA_DRUGS_BY_YEAR.items) = {<<"B">>}
    /\ LookupIsCurrent
    /\ lookup.name = <<"a">>
    /\ ~lookup.result.is_ira_drug

-----------------------------------------------------------------------------
(* The three floor-pricing detectors of risk/penny_pricing.py on one row *)

PENNY_THRESHOLD == Dec(10, 2)

\* the row matches.row(0) of check_penny_pricing_for_drug: the first row
\* whose NDC, dashes and surrounding whitespace removed, is the cleaned query
check_penny_pricing_for_drug(ndc, nadac_df) ==
    LET ndc_clean == strip(replace_char(ndc, "-"))
        matches == {i \in DOMAIN nadac_df.rows :
                       strip(replace_char(nadac_df.rows[i].ndc, "-")) = ndc_clean}
        row == nadac_df.rows[CHOOSE i \in matches : \A k \in matches : i <= k]
    IN  IF matches = {} THEN [is_penny_priced |-> FALSE, should_exclude |-> FALSE]
        ELSE LET is_penny ==
                    \/ nadac_df.has_penny_column /\ CellTruthy(row.penny_pricing)
                    \/ /\ nadac_df.has_price_column
                       /\ IsSome(row.nadac_per_unit)
                       /\ ~DecGt(Val(row.nadac_per_unit), PENNY_THRESHOLD)
                    \/ /\ nadac_df.has_discount_column
                       /\ HighDiscount(row.total_discount_340b_pct)
             IN  [is_penny_priced |-> is_penny, should_exclude |-> is_penny]

\* NADAC tables of one row, with the price per unit next to the flag and
\* the discount; a cell of an absent column reads as None
DetectTables ==
    {df \in [has_penny_column : BOOLEAN, has_discount_column : BOOLEAN,
             has_price_column : BOOLEAN,
             rows : {<<row>> : row \in [ndc : NdcStrs, penny_pricing : PennyCells,
                                        total_discount_340b_pct : DiscountOpts,
                                        nadac_per_unit : {None, Some(Dec(10, 2)),
                                                          Some(Dec(25000, 2))}]}] :
        /\ ~df.has_penny_column => df.rows[1].penny_pricing = "NULL"
        /\ ~df.has_discount_column => IsNone(df.rows[1].total_discount_340b_pct)
        /\ ~df.has_price_column => IsNone(df.rows[1].nadac_per_unit)}

InitDetect ==
    /\ IdleMargin
    /\ IdlePenny
    /\ IdleJoin
    /\ IdleRisk
    /\ arg \in {[fn |-> "penny", nadac_df |-> df] : df \in DetectTables}
    /\ ret = NoResult

\* check_penny_pricing(nadac_df): is the row in the flagged list
DetectInTable ==
    /\ arg.fn = "penny"
    /\ ret = NoResult
    /\ ret' = [kind |-> "check_penny_pricing",
               is_penny_priced |-> check_penny_pricing(arg.nadac_df) # <<>>]
    /\ UNCHANGED <<arg, marginVars, pennyVars, joinVars, riskVars>>

\* check_penny_pricing_for_drug(ndc, nadac_df) for the NDC of the row
DetectForDrug ==
    /\ arg.fn = "penny"
    /\ ret = NoResult
    /\ ret' = [kind |-> "check_penny_pricing_for_drug",
               is_penny_priced |->
                   check_penny_pricing_for_drug(arg.nadac_df.rows[1].ndc,
                                                arg.nadac_df).is_penny_priced]
    /\ UNCHANGED <<arg, marginVars, pennyVars, joinVars, riskVars>>

\* build_nadac_lookup(nadac_df)[ndc_normalized] for the NDC of the row
DetectInLookup ==
    /\ arg.fn = "penny"
    /\ ret = NoResult
    /\ ret' = [kind |-> "build_nadac_lookup",
               is_penny_priced |->
                   Val(build_nadac_lookup(arg.nadac_df,
                                          nadac_ndc_key(arg.nadac_df.rows[1].ndc))
                      ).is_penny_priced]
    /\ UNCHANGED <<arg, marginVars, pennyVars, joinVars, riskVars>>

NextDetect ==
    \/ DetectInTable
    \/ DetectForDrug
    \/ DetectInLookup

SpecDetect == InitDetect /\ [][NextDetect]_vars

\* the classification of the claim: the explicit flag is set, or the
\* discount is at least the threshold
FlagSetOrHighDiscount(row) ==
    \/ row.penny_pricing \in {"TRUE", "Yes"}
    \/ HighDiscount(row.total_discount_340b_pct)

\* C16: a product is classified floor-priced if and only if its NADAC row
\* has the explicit flag set or a discount of at least 95%, and each of
\* check_penny_pricing, check_penny_pricing_for_drug and build_nadac_lookup
\* gives this classification for the row.
C16_DetectorsClassifyAlike ==
    ret.kind \in {"check_penny_pricing", "check_penny_pricing_for_drug",
                  "build_nadac_lookup"} =>
        (ret.is_penny_priced <=> FlagSetOrHighDiscount(arg.nadac_df.rows[1]))

\* what does hold: build_nadac_lookup gives the classification of the claim
LookupClassifiesAsClaimed ==
    ret.kind = "build_nadac_lookup" =>
        (ret.is_penny_priced <=> FlagSetOrHighDiscount(arg.nadac_df.rows[1]))

-----------------------------------------------------------------------------
(* compute/dosing.py: the lookup of a loading-dose profile *)

MaxGridRows == 2

DEFAULT_COMPLIANCE_RATE == Dec(90, 2)

\* the index of the row apply_loading_dose_logic reads, 0 when it returns
\* None: the first row of the drug with the indication, else of the drug
dosing_row(drug_name, dosing_grid, indication) ==
    LET rows == dosing_grid.rows
        matches == {i \in DOMAIN rows : upper(rows[i].drug_name) = upper(drug_name)}
        indication_matches ==
            IF IsSome(indication) /\ dosing_grid.has_indication_column
               THEN {i \in matches : rows[i].indication = indication}
            ELSE {}
        kept == IF indication_matches # {} THEN indication_matches ELSE matches
    IN  IF rows = <<>> \/ ~dosing_grid.has_required_columns \/ matches = {} THEN 0
        ELSE CHOOSE i \in kept : \A k \in kept : i <= k

\* None, or the DosingProfile made of the row read; the grids here have no
\* "Year 2+ Fills" column, so the maintenance fills default to year_1_fills
apply_loading_dose_logic(drug_name, dosing_grid, indication, compliance_rate) ==
    LET n == dosing_row(drug_name, dosing_grid, indication)
        row == dosing_grid.rows[n]
        year_1_fills == IF IsSome(row.year_1_fills) /\ Val(row.year_1_fills) # 0
                           THEN Val(row.year_1_fills) ELSE 12
    IN  IF n = 0 THEN None
        ELSE Some([drug_name |-> drug_name,
                   indication |-> IF dosing_grid.has_indication_column
                                     /\ IsSome(row.indication)
                                     /\ Val(row.indication) # <<>>
                                     THEN Val(row.indication) ELSE "Unknown",
                   year_1_fills |-> year_1_fills,
                   year_2_plus_fills |-> year_1_fills,
                   adjusted_year_1_fills |->
                       DecMul(DecFromInt(year_1_fills), compliance_rate)])

\* rows of the grid: names and indications in either letter case, the
\* Year 1 cell null or filled
GridRows ==
    [drug_name : {<<"A">>, <<"a">>, <<"B">>},
     indication : {Some(<<"A">>), Some(<<"B">>)},
     year_1_fills : {None, Some(17)}]

DosingGrids ==
    [has_required_columns : BOOLEAN, has_indication_column : BOOLEAN,
     rows : SeqsUpTo(GridRows, MaxGridRows)]

InitDosing ==
    /\ IdleMargin
    /\ IdlePenny
    /\ IdleJoin
    /\ IdleRisk
    /\ arg \in [fn : {"dosing"}, drug_name : {<<"a">>, <<"A">>, <<"b">>},
                dosing_grid : DosingGrids,
                indication : {None, Some(<<"A">>), Some(<<"a">>), Some(<<"B">>)}]
    /\ ret = NoResult

\* apply_loading_dose_logic(drug_name, dosing_grid, indication)
ApplyLoadingDoseLogic ==
    /\ arg.fn = "dosing"
    /\ ret = NoResult
    /\ ret' = [kind |-> "dosing",
               row |-> dosing_row(arg.drug_name, arg.dosing_grid, arg.indication),
               profile |-> apply_loading_dose_logic(arg.drug_name, arg.dosing_grid,
                                                    arg.indication,
                                                    DEFAULT_COMPLIANCE_RATE)]
    /\ UNCHANGED <<arg, marginVars, pennyVars, joinVars, riskVars>>

SpecDosing == InitDosing /\ [][ApplyLoadingDoseLogic]_vars

\* the rows of the drug, letter case ignored
RowsOfDrug == {i \in DOMAIN arg.dosing_grid.rows :
                  upper(arg.dosing_grid.rows[i].drug_name) = upper(arg.drug_name)}

\* the row the claim selects among the rows in same: the first of them, or
\* the first of the drug when same is empty
ClaimedRow(same) ==
    LET kept == IF same # {} THEN same ELSE RowsOfDrug
    IN  IF RowsOfDrug = {} THEN 0 ELSE CHOOSE i \in kept : \A k \in kept : i <= k

\* a grid that can be read: it has rows and the required and Indication columns
GridReadable ==
    /\ arg.dosing_grid.rows # <<>>
    /\ arg.dosing_grid.has_required_columns
    /\ arg.dosing_grid.has_indication_column

\* C17: apply_loading_dose_logic selects the row by exact match, letter
\* case ignored, on drug name and on indication; with the indication not
\* given or matching no row of the drug it takes the drug's first row; for
\* an unknown drug it returns no profile.
C17_RowByDrugAndIndicationAnyCase ==
    (ret.kind = "dosing" /\ GridReadable) =>
        /\ ret.row = ClaimedRow(
              {i \in RowsOfDrug :
                  /\ IsSome(arg.indication)
                  /\ upper(Val(arg.dosing_grid.rows[i].indication))
                         = upper(Val(arg.indication))})
        /\ IsNone(ret.profile) <=> RowsOfDrug = {}

\* what does hold: the statement above with the indication compared as spelled
RowByDrugAnyCaseAndIndicationAsSpelled ==
    (ret.kind = "dosing" /\ GridReadable) =>
        /\ ret.row = ClaimedRow(
              {i \in RowsOfDrug :
                  /\ IsSome(arg.indication)
                  /\ arg.dosing_grid.rows[i].indication = arg.indication})
        /\ IsNone(ret.profile) <=> RowsOfDrug = {}

-----------------------------------------------------------------------------
(* ingest/validators.py: the check of the high-value watch list            *)
(*                                                                         *)
(* The products of TOP_50_DRUG_NAMES are numbered 1..50.  A catalog row    *)
(* names the watch-list product its drug name contains in upper case, 0    *)
(* when it contains none; a rate is a whole number of percent.             *)

MaxMissing == 4
MaxDefects == 3

TOP_50_DRUG_NAMES == [i \in 1..50 |-> i]

\* a null cell, or a cell equal to zero
NullOrZero(cell) == IsNone(cell) \/ Val(cell) = 0

ValidationResult(is_valid, missing_columns, row_count, warnings) ==
    [is_valid |-> is_valid, missing_columns |-> missing_columns,
     row_count |-> row_count, warnings |-> warnings]

validate_top_drugs_pricing(catalog_df, max_missing_pct) ==
    LET rows == catalog_df.rows
        IsFound(top) == \E i \in DOMAIN rows : rows[i].drug = top
        found_drugs == SelectSeq(TOP_50_DRUG_NAMES, IsFound)
        IsMissing(top) == ~IsFound(top)
        missing_drugs == SelectSeq(TOP_50_DRUG_NAMES, IsMissing)
        Incomplete(top) ==
            \E i \in DOMAIN rows :
                /\ rows[i].drug = top
                /\ \/ catalog_df.has_cost_column /\ NullOrZero(rows[i].contract_cost)
                   \/ catalog_df.has_awp_column /\ NullOrZero(rows[i].awp)
        drugs_with_missing_pricing == SelectSeq(found_drugs, Incomplete)
        total_top_drugs == Len(TOP_50_DRUG_NAMES)
        missing_count == Len(missing_drugs) + Len(drugs_with_missing_pricing)
        warnings == (IF missing_drugs # <<>> THEN <<"not found in catalog">> ELSE <<>>)
                    \o (IF drugs_with_missing_pricing # <<>>
                           THEN <<"incomplete pricing">> ELSE <<>>)
    IN  IF ~catalog_df.has_name_column
           THEN ValidationResult(TRUE, <<>>, Len(rows), <<"cannot validate">>)
        ELSE IF missing_count * 100 > max_missing_pct * total_top_drugs
           THEN ValidationResult(FALSE, <<>>, Len(rows), warnings)
        ELSE ValidationResult(TRUE, <<>>, Len(rows), warnings)

\* a priced cell, or the defect of this kind in the column
DefectCell(column, defect) ==
    IF defect = "null " \o column THEN None
    ELSE IF defect = "zero " \o column THEN Some(0)
    ELSE Some(100)

\* catalogs that lack the last `missing` products of the list and carry
\* the defect in the rows of the first `defects` products
WatchCatalogs ==
    {[has_name_column |-> cols[1], has_cost_column |-> cols[2], has_awp_column |-> cols[3],
      rows |-> [i \in 1..(50 - missing) |->
                   [drug |-> i,
                    contract_cost |-> IF i <= defects THEN DefectCell("cost", defect)
                                      ELSE Some(100),
                    awp |-> IF i <= defects THEN DefectCell("awp", defect)
                            ELSE Some(100)]]] :
        cols \in [1..3 -> BOOLEAN], missing \in 0..MaxMissing, defects \in 0..MaxDefects,
        defect \in {"null cost", "zero cost", "null awp", "zero awp"}}

InitWatch ==
    /\ IdleMargin
    /\ IdlePenny
    /\ IdleJoin
    /\ IdleRisk
    /\ arg \in [fn : {"top_drugs"}, catalog_df : WatchCatalogs, max_missing_pct : {5, 10}]
    /\ ret = NoResult

\* validate_top_drugs_pricing(catalog_df, max_missing_pct=...)
ValidateTopDrugsPricing ==
    /\ arg.fn = "top_drugs"
    /\ ret = NoResult
    /\ ret' = [kind |-> "top_drugs",
               result |-> validate_top_drugs_pricing(arg.catalog_df, arg.max_missing_pct)]
    /\ UNCHANGED <<arg, marginVars, pennyVars, joinVars, riskVars>>

SpecWatch == InitWatch /\ [][ValidateTopDrugsPricing]_vars

\* the watch-list products absent from the catalog or with a null or zero
\* cost or price in a column the catalog has
Shortfall(catalog_df) ==
    {top \in 1..50 :
        \/ \A i \in DOMAIN catalog_df.rows : catalog_df.rows[i].drug # top
        \/ \E i \in DOMAIN catalog_df.rows :
              /\ catalog_df.rows[i].drug = top
              /\ \/ catalog_df.has_cost_column /\ NullOrZero(catalog_df.rows[i].contract_cost)
                 \/ catalog_df.has_awp_column /\ NullOrZero(catalog_df.rows[i].awp)}

\* C18: the watch-list check never blocks: with more than the configured
\* fraction of the 50 products absent or without cost or price,
\* validate_top_drugs_pricing reports a warning and its result is still
\* valid; at or below the fraction it reports no warning.
C18_WatchListCheckOnlyWarns ==
    (ret.kind = "top_drugs" /\ arg.catalog_df.has_name_column) =>
        /\ ret.result.is_valid
        /\ ret.result.warnings # <<>> <=>
              Cardinality(Shortfall(arg.catalog_df)) * 100 > arg.max_missing_pct * 50

\* what does hold: the result is invalid exactly above the fraction
InvalidExactlyAboveFraction ==
    (ret.kind = "top_drugs" /\ arg.catalog_df.has_name_column) =>
        (~ret.result.is_valid <=>
            Cardinality(Shortfall(arg.catalog_df)) * 100 > arg.max_missing_pct * 50)

-----------------------------------------------------------------------------
(* ingest/validators.py validate_crosswalk_integrity, next to the join     *)
(*                                                                         *)
(* A rate is a pair of whole numbers, match_count of total; the threshold  *)
(* is a whole number of percent.  The NDC column the validator reads and   *)
(* the normalized column the join reads hold the same strings here.        *)

\* the mutation that takes the crosswalk's identifiers as the total
validate_crosswalk_integrity_OverCrosswalk(catalog_df, crosswalk_df, min_match_rate) ==
    LET catalog_ndcs == {catalog_df[i].ndc : i \in DOMAIN catalog_df}
        crosswalk_ndcs == {crosswalk_df[i].ndc : i \in DOMAIN crosswalk_df}
        total == Cardinality(crosswalk_ndcs)
        match_count == Cardinality(catalog_ndcs \cap crosswalk_ndcs)
        below == IF total > 0 THEN match_count * 100 < min_match_rate * total
                 ELSE 0 < min_match_rate
    IN  [match_count |-> match_count, total |-> total,
         result |-> IF below
                       THEN ValidationResult(FALSE, <<>>, total, <<"sample unmatched">>)
                    ELSE ValidationResult(TRUE, <<>>, total, <<>>)]

validate_crosswalk_integrity(catalog_df, crosswalk_df, min_match_rate) ==
    LET catalog_ndcs == {catalog_df[i].ndc : i \in DOMAIN catalog_df}
        crosswalk_ndcs == {crosswalk_df[i].ndc : i \in DOMAIN crosswalk_df}
        total == Cardinality(catalog_ndcs)
        match_count == Cardinality(catalog_ndcs \cap crosswalk_ndcs)
        below == IF total > 0 THEN match_count * 100 < min_match_rate * total
                 ELSE 0 < min_match_rate
    IN  [match_count |-> match_count, total |-> total,
         result |-> IF below
                       THEN ValidationResult(FALSE, <<>>, total, <<"sample unmatched">>)
                    ELSE ValidationResult(TRUE, <<>>, total, <<>>)]

InitIntegrity ==
    /\ IdleMargin
    /\ IdlePenny
    /\ IdleRisk
    /\ \E n \in 0..MaxCatalogRows :
          catalog \in {[i \in 1..n |-> [row |-> i, ndc |-> NdcStr(f[i], FALSE)]] :
                          f \in [1..n -> 1..MaxNdc]}
    /\ crosswalk \in CrosswalkTables
    /\ asp_pricing = <<>>
    /\ jres = NoResult
    /\ arg \in [fn : {"integrity"}, min_match_rate : {95, 50}]
    /\ ret = NoResult

\* validate_crosswalk_integrity(catalog_df, crosswalk_df, min_match_rate=...)
ValidateCrosswalkIntegrity ==
    /\ arg.fn = "integrity"
    /\ ret = NoResult
    /\ ret' = [kind |-> "integrity",
               check |-> validate_crosswalk_integrity(catalog, crosswalk,
                                                      arg.min_match_rate)]
    /\ UNCHANGED <<arg, marginVars, pennyVars, joinVars, riskVars>>

NextIntegrity ==
    \/ ValidateCrosswalkIntegrity
    \/ JoinCatalogToCrosswalk

SpecIntegrity == InitIntegrity /\ [][NextIntegrity]_vars

-----------------------------------------------------------------------------
(* ingest/validators.py: the schema validators                             *)
(*                                                                         *)
(* A table is the set of its column names and its height.                  *)

CATALOG_REQUIRED_COLUMNS == {"NDC", "AWP"}
CATALOG_COST_COLUMNS == {"Unit Price (Current Catalog)", "Contract Cost"}
CATALOG_OPTIONAL_COLUMNS == {"Drug Name", "Manufacturer", "Gross Margin %"}
ASP_PRICING_REQUIRED_COLUMNS == {"HCPCS Code", "Payment Limit"}
CROSSWALK_REQUIRED_COLUMNS == {"NDC", "HCPCS Code"}
NADAC_REQUIRED_COLUMNS == {"ndc", "total_discount_340b_pct"}
NOC_PRICING_REQUIRED_COLUMNS == {"Drug Generic Name", "Payment Limit"}
NOC_CROSSWALK_REQUIRED_COLUMNS == {"NDC", "Drug Generic Name"}

\* the column names of the tables in the order of Python's str comparison
ColumnOrder ==
    <<"AWP", "Contract Cost", "Drug Generic Name", "Drug Name", "HCPCS Code", "NDC",
      "Payment Limit", "Unit Price (Current Catalog)", "ndc", "total_discount_340b_pct">>

\* the mutation of sorted that lists the names in descending order
sorted_Descending(names) ==
    LET In(name) == name \in names
        up == SelectSeq(ColumnOrder, In)
    IN  [i \in DOMAIN up |-> up[Len(up) + 1 - i]]

\* sorted(names) for a set of column names
sorted(names) ==
    LET In(name) == name \in names
    IN  SelectSeq(ColumnOrder, In)

\* the body shared by the validators of one required set
RequiredColumnsResult(df, required) ==
    LET missing == required \ df.columns
    IN  IF missing # {} THEN ValidationResult(FALSE, sorted(missing), df.height, <<>>)
        ELSE ValidationResult(TRUE, <<>>, df.height, <<>>)

validate_catalog_schema(df) ==
    LET missing == CATALOG_REQUIRED_COLUMNS \ df.columns
        has_cost_column == CATALOG_COST_COLUMNS \cap df.columns # {}
        missing_optional == CATALOG_OPTIONAL_COLUMNS \ df.columns
        cost_col_used == IF "Unit Price (Current Catalog)" \in df.columns
                            THEN "Unit Price (Current Catalog)" ELSE "Contract Cost"
    IN  IF missing # {} THEN ValidationResult(FALSE, sorted(missing), df.height, <<>>)
        ELSE IF ~has_cost_column
           THEN ValidationResult(FALSE, sorted(CATALOG_COST_COLUMNS), df.height, <<>>)
        ELSE ValidationResult(TRUE, <<>>, df.height,
                 (IF missing_optional # {} THEN <<"missing recommended columns">>
                  ELSE <<>>) \o <<cost_col_used>>)

validate_asp_schema(df) == RequiredColumnsResult(df, ASP_PRICING_REQUIRED_COLUMNS)

validate_crosswalk_schema(df) == RequiredColumnsResult(df, CROSSWALK_REQUIRED_COLUMNS)

validate_nadac_schema(df) == RequiredColumnsResult(df, NADAC_REQUIRED_COLUMNS)

validate_noc_pricing_schema(df) == RequiredColumnsResult(df, NOC_PRICING_REQUIRED_COLUMNS)

validate_noc_crosswalk_schema(df) == RequiredColumnsResult(df, NOC_CROSSWALK_REQUIRED_COLUMNS)

\* the required columns of the table a validator is for
RequiredOf ==
    [catalog |-> CATALOG_REQUIRED_COLUMNS, asp |-> ASP_PRICING_REQUIRED_COLUMNS,
     crosswalk |-> CROSSWALK_REQUIRED_COLUMNS, nadac |-> NADAC_REQUIRED_COLUMNS,
     noc_pricing |-> NOC_PRICING_REQUIRED_COLUMNS,
     noc_crosswalk |-> NOC_CROSSWALK_REQUIRED_COLUMNS]

Tables == [columns : SUBSET {ColumnOrder[i] : i \in DOMAIN ColumnOrder}, height : {0, 3}]

InitSchema ==
    /\ IdleMargin
    /\ IdlePenny
    /\ IdleJoin
    /\ IdleRisk
    /\ arg \in [fn : {"schema"}, source : DOMAIN RequiredOf, df : Tables]
    /\ ret = NoResult

\* the validator of a source returns
Validated(source, result) ==
    /\ arg.fn = "schema"
    /\ arg.source = source
    /\ ret = NoResult
    /\ ret' = [kind |-> "schema", result |-> result]
    /\ UNCHANGED <<arg, marginVars, pennyVars, joinVars, riskVars>>

ValidateCatalogSchema == Validated("catalog", validate_catalog_schema(arg.df))

ValidateAspSchema == Validated("asp", validate_asp_schema(arg.df))

ValidateCrosswalkSchema == Validated("crosswalk", validate_crosswalk_schema(arg.df))

ValidateNadacSchema == Validated("nadac", validate_nadac_schema(arg.df))

ValidateNocPricingSchema == Validated("noc_pricing", validate_noc_pricing_schema(arg.df))

ValidateNocCrosswalkSchema ==
    Validated("noc_crosswalk", validate_noc_crosswalk_schema(arg.df))

NextSchema ==
    \/ ValidateCatalogSchema
    \/ ValidateAspSchema
    \/ ValidateCrosswalkSchema
    \/ ValidateNadacSchema
    \/ ValidateNocPricingSchema
    \/ ValidateNocCrosswalkSchema

SpecSchema == InitSchema /\ [][NextSchema]_vars

\* the place of a column name in the order of the names
Place(name) == CHOOSE i \in DOMAIN ColumnOrder : ColumnOrder[i] = name

\* the list holds exactly the names of the set, ascending, each once
IsSortedListOf(list, names) ==
    /\ {list[i] : i \in DOMAIN list} = names
    /\ \A i, k \in DOMAIN list : i < k => Place(list[i]) < Place(list[k])

\* every required column is there and, for the catalog, a cost column
SchemaComplete ==
    /\ RequiredOf[arg.source] \subseteq arg.df.columns
    /\ arg.source = "catalog" => CATALOG_COST_COLUMNS \cap arg.df.columns # {}

\* C20 as stated: a schema validator returns a valid result exactly when
\* every required column is present (and, for the catalog, a cost column);
\* otherwise the missing-columns list is exactly the sorted set of
\* the required columns absent from the table.
C20_MissingListIsAbsentRequired ==
    ret.kind = "schema" =>
        /\ ret.result.is_valid <=> SchemaComplete
        /\ IsSortedListOf(ret.result.missing_columns,
                          RequiredOf[arg.source] \ arg.df.columns)

\* C20 as it holds: valid exactly as stated; the missing-columns list is
\* the sorted set of the absent required columns, and for a catalog that
\* has every required column but no cost column it is the sorted pair of
\* the cost-column variants; the absent cost columns are not listed while a
\* required column is absent.
C20_MissingListOrCostVariants ==
    ret.kind = "schema" =>
        /\ ret.result.is_valid <=> SchemaComplete
        /\ IsSortedListOf(ret.result.missing_columns,
              IF /\ arg.source = "catalog"
                 /\ CATALOG_REQUIRED_COLUMNS \subseteq arg.df.columns
                 /\ CATALOG_COST_COLUMNS \cap arg.df.columns = {}
                 THEN CATALOG_COST_COLUMNS
              ELSE RequiredOf[arg.source] \ arg.df.columns)

\* a table without any of the two required columns of its source is
\* invalid and both are listed
C20_Witness ==
    /\ ret.kind = "schema"
    /\ RequiredOf[arg.source] \cap arg.df.columns = {}
    /\ ~ret.result.is_valid
    /\ Len(ret.result.missing_columns) = 2


\* ---------------------------------------------------------------------------
\* Fuzzy name matching (ingest/normalizers.py)
\* ---------------------------------------------------------------------------

MaxCandidates == 3

RECURSIVE lcs_len(_, _)
\* length of the longest common subsequence of two strings
lcs_len(a, b) ==
    IF a = <<>> \/ b = <<>> THEN 0
    ELSE IF Head(a) = Head(b) THEN 1 + lcs_len(Tail(a), Tail(b))
    ELSE Max(lcs_len(Tail(a), b), lcs_len(a, Tail(b)))

\* fuzz.ratio(s1, s2): the normalised Indel similarity, rounded to an integer
ratio(s1, s2) ==
    IF Len(s1) + Len(s2) = 0 THEN 100
    ELSE RoundDiv(200 * lcs_len(s1, s2), Len(s1) + Len(s2))

\* fuzz.partial_ratio(s1, s2): the best ratio of the shorter string against the
\* alignments of a window of its length over the longer one, the windows that
\* overhang either end included
partial_ratio(s1, s2) ==
    LET shorter == IF Len(s1) <= Len(s2) THEN s1 ELSE s2
        longer  == IF Len(s1) <= Len(s2) THEN s2 ELSE s1
        m == Len(shorter)
        n == Len(longer)
        window(i) == SubSeq(longer, Max(1, i), IF i + m - 1 <= n THEN i + m - 1 ELSE n)
        scores == {ratio(shorter, window(i)) : i \in (2 - m)..n}
    IN  IF m = 0 THEN (IF n = 0 THEN 100 ELSE 0)
        ELSE CHOOSE s \in scores : \A t \in scores : t <= s

\* score of a candidate under the full or the partial scorer
fuzz_score(partial, s1, s2) ==
    IF partial THEN partial_ratio(s1, s2) ELSE ratio(s1, s2)

RECURSIVE best_candidate(_, _, _, _, _, _)
\* for candidate in candidates: skip None; a score strictly above best_score
\* and at or above the threshold replaces the best match
best_candidate(partial, name_upper, candidates, threshold, best_match, best_score) ==
    IF candidates = <<>> THEN best_match
    ELSE LET candidate == Head(candidates)
             score == fuzz_score(partial, name_upper, upper(Val(candidate)))
         IN  IF IsNone(candidate)
             THEN best_candidate(partial, name_upper, Tail(candidates), threshold,
                                 best_match, best_score)
             ELSE IF score > best_score /\ score >= threshold
             THEN best_candidate(partial, name_upper, Tail(candidates), threshold,
                                 candidate, score)
             ELSE best_candidate(partial, name_upper, Tail(candidates), threshold,
                                 best_match, best_score)

\* fuzzy_match_drug_name(name, candidates, threshold=80)
fuzzy_match_drug_name(name, candidates, threshold) ==
    IF name = <<>> \/ candidates = <<>> THEN None
    ELSE best_candidate(FALSE, upper(name), candidates, threshold, None, 0)

\* fuzzy_match_drug_partial(name, candidates, threshold=70)
fuzzy_match_drug_partial(name, candidates, threshold) ==
    IF name = <<>> \/ candidates = <<>> THEN None
    ELSE best_candidate(TRUE, upper(name), candidates, threshold, None, 0)

\* queries and candidate names; a candidate may be None
FuzzyNames == {<<>>, <<"A">>, <<"a">>, <<"B">>, <<"A", "B">>, <<"a", "b">>, <<"B", "A">>}

FuzzyCandidates ==
    {None} \cup {Some(s) : s \in {<<"A">>, <<"B">>, <<"A", "B">>, <<"a", "b">>,
                                  <<"B", "A", "B">>}}

\* thresholds: the two defaults, the ends of the documented range 0-100, and
\* scores that short names reach
FuzzyThresholds == {0, 50, 67, 70, 80, 100}

InitFuzzy ==
    /\ IdleMargin
    /\ IdlePenny
    /\ IdleJoin
    /\ IdleRisk
    /\ arg \in [fn : {"fuzzy_full", "fuzzy_partial"}, name : FuzzyNames,
                candidates : SeqsUpTo(FuzzyCandidates, MaxCandidates),
                threshold : FuzzyThresholds]
    /\ ret = NoResult

\* a call of fuzzy_match_drug_name
FuzzyMatchDrugName ==
    /\ arg.fn = "fuzzy_full"
    /\ ret = NoResult
    /\ ret' = [kind |-> "fuzzy", partial |-> FALSE,
               match |-> fuzzy_match_drug_name(arg.name, arg.candidates, arg.threshold)]
    /\ UNCHANGED <<arg, marginVars, pennyVars, joinVars, riskVars>>

\* a call of fuzzy_match_drug_partial
FuzzyMatchDrugPartial ==
    /\ arg.fn = "fuzzy_partial"
    /\ ret = NoResult
    /\ ret' = [kind |-> "fuzzy", partial |-> TRUE,
               match |-> fuzzy_match_drug_partial(arg.name, arg.candidates, arg.threshold)]
    /\ UNCHANGED <<arg, marginVars, pennyVars, joinVars, riskVars>>

NextFuzzy == FuzzyMatchDrugName \/ FuzzyMatchDrugPartial

SpecFuzzy == InitFuzzy /\ [][NextFuzzy]_vars

\* score of the i-th candidate of the call against the query
ScoreAt(i) == fuzz_score(ret.partial, upper(arg.name), upper(Val(arg.candidates[i])))

\* the match is the first candidate of the highest score among the positions
\* in eligible, and None when there is none
FirstBestOf(eligible) ==
    IF eligible = {} THEN ret.match = None
    ELSE LET top == CHOOSE i \in eligible :
                        \A j \in eligible : ScoreAt(j) < ScoreAt(i)
                                            \/ (ScoreAt(j) = ScoreAt(i) /\ i <= j)
         IN  ret.match = arg.candidates[top]

\* C21: the fuzzy matcher returns the candidate of the highest score among those
\* scoring at or above the threshold, the first of them on a tie, and none when
\* no candidate reaches the threshold
C21_BestAtOrAboveThreshold ==
    ret.kind = "fuzzy" =>
        FirstBestOf({i \in DOMAIN arg.candidates :
                        /\ ~IsNone(arg.candidates[i])
                        /\ ScoreAt(i) >= arg.threshold})

\* what the matcher does: the same choice among the candidates of a score above
\* zero, and nothing for an empty query
BestPositiveAtOrAboveThreshold ==
    ret.kind = "fuzzy" =>
        IF arg.name = <<>> THEN ret.match = None
        ELSE FirstBestOf({i \in DOMAIN arg.candidates :
                            /\ ~IsNone(arg.candidates[i])
                            /\ ScoreAt(i) >= arg.threshold
                            /\ ScoreAt(i) > 0})


\* ---------------------------------------------------------------------------
\* Year 1 against maintenance revenue (compute/dosing.py, models.py)
\* ---------------------------------------------------------------------------

\* decimal places kept of a Decimal quotient that does not terminate
DivPlaces == 3

\* a / b: the quotient rounded half-even at the precision of the context
DecDiv(a, b) ==
    LET num == a.c * Pow10(b.e) * Pow10(DivPlaces)
        den == b.c * Pow10(a.e)
    IN  Dec(IF den < 0 THEN RoundDiv(-num, -den) ELSE RoundDiv(num, den), DivPlaces)

\* the DosingProfile that apply_loading_dose_logic builds of a grid row:
\* a null or zero Year 1 cell reads as 12, a null or zero Year 2+ cell as the
\* Year 1 fills
DosingProfile(year_1_cell, year_2_cell, compliance_rate) ==
    LET year_1_fills == IF IsSome(year_1_cell) /\ Val(year_1_cell) # 0
                           THEN Val(year_1_cell) ELSE 12
        year_2_fills == IF IsSome(year_2_cell) /\ Val(year_2_cell) # 0
                           THEN Val(year_2_cell) ELSE year_1_fills
    IN  [year_1_fills |-> year_1_fills,
         year_2_plus_fills |-> year_2_fills,
         adjusted_year_1_fills |-> DecMul(DecFromInt(year_1_fills), compliance_rate)]

\* DosingProfile.year_1_revenue
year_1_revenue(self, margin_per_fill) == DecMul(self.adjusted_year_1_fills, margin_per_fill)

\* DosingProfile.maintenance_revenue
maintenance_revenue(self, margin_per_fill) ==
    DecMul(DecFromInt(self.year_2_plus_fills), margin_per_fill)

\* calculate_year_1_vs_maintenance_delta(dosing_profile, margin_per_fill)
calculate_year_1_vs_maintenance_delta(dosing_profile, margin_per_fill) ==
    LET year_1 == year_1_revenue(dosing_profile, margin_per_fill)
        maintenance == maintenance_revenue(dosing_profile, margin_per_fill)
        delta == DecSub(year_1, maintenance)
    IN  [year_1_revenue |-> year_1,
         maintenance_revenue |-> maintenance,
         loading_dose_delta |-> delta,
         loading_dose_delta_pct |->
             IF DecGt(maintenance, Dec(0, 0))
             THEN DecMul(DecDiv(delta, maintenance), Dec(100, 0))
             ELSE Dec(0, 0)]

InitDelta ==
    /\ IdleMargin
    /\ IdlePenny
    /\ IdleJoin
    /\ IdleRisk
    /\ arg \in [fn : {"delta"},
                year_1_cell : {None, Some(0), Some(12), Some(17)},
                year_2_cell : {None, Some(0), Some(12), Some(13)},
                compliance_rate : {DEFAULT_COMPLIANCE_RATE, Dec(100, 2), Dec(5, 1)},
                margin_per_fill : {Dec(-5, 0), Dec(0, 0), Dec(5, 0), Dec(25, 1)}]
    /\ ret = NoResult

\* the profile of a grid row, then its revenue delta
CalculateYear1VsMaintenanceDelta ==
    /\ arg.fn = "delta"
    /\ ret = NoResult
    /\ LET profile == DosingProfile(arg.year_1_cell, arg.year_2_cell, arg.compliance_rate)
       IN  ret' = [kind |-> "delta", profile |-> profile,
                   result |-> calculate_year_1_vs_maintenance_delta(profile,
                                                                    arg.margin_per_fill)]
    /\ UNCHANGED <<arg, marginVars, pennyVars, joinVars, riskVars>>

SpecDelta == InitDelta /\ [][CalculateYear1VsMaintenanceDelta]_vars

\* pct is delta / maintenance * 100 to the precision of the quotient
IsPercentOf(pct, delta, maintenance) ==
    ~DecGt(DecAbs(DecSub(DecMul(pct, maintenance), DecMul(Dec(100, 0), delta))),
           DecMul(DecAbs(maintenance), Dec(50, DivPlaces)))

\* adjusted fills and the two revenues as the products stated
RevenuesAsStated ==
    /\ DecEq(ret.profile.adjusted_year_1_fills,
             DecMul(DecFromInt(ret.profile.year_1_fills), arg.compliance_rate))
    /\ DecEq(ret.result.year_1_revenue,
             DecMul(ret.profile.adjusted_year_1_fills, arg.margin_per_fill))
    /\ DecEq(ret.result.maintenance_revenue,
             DecMul(DecFromInt(ret.profile.year_2_plus_fills), arg.margin_per_fill))

\* C22: for every dosing profile and per-fill margin the adjusted fills, the
\* two revenues and delta% = (year-1 revenue - steady-state revenue) /
\* steady-state revenue * 100 are as stated, wherever the quotient is defined;
\* 17 and 12 fills at 90% compliance give 15.3 adjusted fills and more than 20%
C22_DeltaPctOfSteadyState ==
    ret.kind = "delta" =>
        /\ RevenuesAsStated
        /\ ~DecIsZero(ret.result.maintenance_revenue) =>
               IsPercentOf(ret.result.loading_dose_delta_pct,
                           DecSub(ret.result.year_1_revenue, ret.result.maintenance_revenue),
                           ret.result.maintenance_revenue)
        /\ (/\ ret.profile.year_1_fills = 17
            /\ ret.profile.year_2_plus_fills = 12
            /\ arg.compliance_rate = DEFAULT_COMPLIANCE_RATE
            /\ DecGt(arg.margin_per_fill, Dec(0, 0)))
           => /\ DecEq(ret.profile.adjusted_year_1_fills, Dec(153, 1))
              /\ DecGt(ret.result.loading_dose_delta_pct, Dec(20, 0))

\* what the code computes: the percentage is the stated one where the
\* steady-state revenue is positive, and 0 where it is zero or negative
DeltaPctWherePositive ==
    ret.kind = "delta" =>
        /\ RevenuesAsStated
        /\ IF DecGt(ret.result.maintenance_revenue, Dec(0, 0))
           THEN IsPercentOf(ret.result.loading_dose_delta_pct,
                            ret.result.loading_dose_delta,
                            ret.result.maintenance_revenue)
           ELSE DecIsZero(ret.result.loading_dose_delta_pct)
        /\ (/\ ret.profile.year_1_fills = 17
            /\ ret.profile.year_2_plus_fills = 12
            /\ arg.compliance_rate = DEFAULT_COMPLIANCE_RATE
            /\ DecGt(arg.margin_per_fill, Dec(0, 0)))
           => /\ DecEq(ret.profile.adjusted_year_1_fills, Dec(153, 1))
              /\ DecEq(ret.result.loading_dose_delta_pct, Dec(275, 1))


\* ---------------------------------------------------------------------------
\* Retail price validation against the wholesaler catalog
\* (risk/retail_validation.py)
\* ---------------------------------------------------------------------------

RETAIL_VARIANCE_THRESHOLD == Dec(20, 2)

\* str(ndc).replace("-", "").replace(" ", "").strip().zfill(11)[-11:], "" for None
_normalize_ndc(ndc) ==
    IF IsNone(ndc) THEN <<>>
    ELSE last_chars(zfill(strip(replace_char(replace_char(Val(ndc), "-"), " ")), 11), 11)

RetailValidationResult(ndc, calculated_retail, actual_retail, variance_pct,
                       confidence, is_valid) ==
    [ndc |-> ndc, calculated_retail |-> calculated_retail,
     actual_retail |-> actual_retail, variance_pct |-> variance_pct,
     confidence |-> confidence, is_valid |-> is_valid]

\* the variant that counts a variance equal to the threshold as low confidence
validate_retail_price_AtThreshold(ndc, calculated_retail, retail_lookup) ==
    LET actual_retail == DictGet(retail_lookup, _normalize_ndc(ndc))
        variance_pct ==
            IF DecIsZero(Val(actual_retail))
            THEN (IF DecGt(calculated_retail, Dec(0, 0)) THEN Dec(10, 1) ELSE Dec(0, 0))
            ELSE DecDiv(DecAbs(DecSub(calculated_retail, Val(actual_retail))),
                        Val(actual_retail))
        is_low_confidence == DecGe(variance_pct, RETAIL_VARIANCE_THRESHOLD)
    IN  IF IsNone(actual_retail)
        THEN RetailValidationResult(ndc, Some(calculated_retail), None, None,
                                    "Unknown", TRUE)
        ELSE RetailValidationResult(ndc, Some(calculated_retail), actual_retail,
                                    Some(variance_pct),
                                    IF is_low_confidence THEN "Low" ELSE "High",
                                    ~is_low_confidence)

\* validate_retail_price(ndc, calculated_retail, retail_lookup)
validate_retail_price(ndc, calculated_retail, retail_lookup) ==
    LET actual_retail == DictGet(retail_lookup, _normalize_ndc(ndc))
        variance_pct ==
            IF DecIsZero(Val(actual_retail))
            THEN (IF DecGt(calculated_retail, Dec(0, 0)) THEN Dec(10, 1) ELSE Dec(0, 0))
            ELSE DecDiv(DecAbs(DecSub(calculated_retail, Val(actual_retail))),
                        Val(actual_retail))
        is_low_confidence == DecGt(variance_pct, RETAIL_VARIANCE_THRESHOLD)
    IN  IF IsNone(actual_retail)
        THEN RetailValidationResult(ndc, Some(calculated_retail), None, None,
                                    "Unknown", TRUE)
        ELSE RetailValidationResult(ndc, Some(calculated_retail), actual_retail,
                                    Some(variance_pct),
                                    IF is_low_confidence THEN "Low" ELSE "High",
                                    ~is_low_confidence)

\* benchmark prices of a lookup, a zero and a negative one among them
Benchmarks == {Dec(0, 0), Dec(300, 2), Dec(1000, 2), Dec(-300, 2)}

\* calculated prices around the benchmarks: equal to one, 20% off it, a cent
\* beyond 20%, far off
CalculatedRetails ==
    {Dec(0, 0), Dec(-100, 2), Dec(240, 2), Dec(300, 2), Dec(360, 2), Dec(361, 2),
     Dec(800, 2), Dec(1200, 2), Dec(1201, 2)}

\* lookups of at most one product, keyed as load_wholesaler_catalog keys them
RetailLookups ==
    {<<>>} \cup {<<[key |-> _normalize_ndc(Some(raw)), value |-> price]>> :
                    raw \in NdcStrs, price \in Benchmarks}

InitRetail ==
    /\ IdleMargin
    /\ IdlePenny
    /\ IdleJoin
    /\ IdleRisk
    /\ arg \in [fn : {"retail"}, ndc : {None} \cup {Some(s) : s \in NdcStrs},
                calculated_retail : CalculatedRetails, retail_lookup : RetailLookups]
    /\ ret = NoResult

\* a call of validate_retail_price
ValidateRetailPrice ==
    /\ arg.fn = "retail"
    /\ ret = NoResult
    /\ ret' = [kind |-> "retail",
               result |-> validate_retail_price(arg.ndc, arg.calculated_retail,
                                                arg.retail_lookup)]
    /\ UNCHANGED <<arg, marginVars, pennyVars, joinVars, riskVars>>

SpecRetail == InitRetail /\ [][ValidateRetailPrice]_vars

\* the benchmarks the lookup holds for the product the identifier names
BenchmarksOf(ndc, retail_lookup) ==
    {retail_lookup[i].value : i \in {j \in DOMAIN retail_lookup :
        IsSome(ndc) /\ retail_lookup[j].key = Drug_ndc_normalized(Val(ndc))}}

\* v is |calculated - benchmark| / benchmark to the precision of the quotient
IsVarianceOf(v, calculated, benchmark) ==
    ~DecGt(DecAbs(DecSub(DecMul(v, benchmark), DecAbs(DecSub(calculated, benchmark)))),
           DecMul(DecAbs(benchmark), Dec(5, DivPlaces + 1)))

\* C23: validate_retail_price answers "Unknown" and passes when the lookup has no
\* benchmark for the identifier; otherwise the variance is |calculated -
\* benchmark| / benchmark (for a benchmark of 0: 100% when calculated > 0, else
\* 0%) and the confidence is "Low" exactly when the variance is strictly above
\* 20%, else "High"
C23_RetailConfidence ==
    ret.kind = "retail" =>
        LET found == BenchmarksOf(arg.ndc, arg.retail_lookup)
            benchmark == CHOOSE b \in found : TRUE
            r == ret.result
            v == Val(r.variance_pct)
            off == DecAbs(DecSub(arg.calculated_retail, benchmark))
        IN  IF found = {}
            THEN r.confidence = "Unknown" /\ r.is_valid /\ IsNone(r.variance_pct)
            ELSE /\ IsSome(r.variance_pct)
                 /\ IF DecIsZero(benchmark)
                    THEN v = (IF DecGt(arg.calculated_retail, Dec(0, 0))
                              THEN Dec(10, 1) ELSE Dec(0, 0))
                    ELSE IsVarianceOf(v, arg.calculated_retail, benchmark)
                 /\ r.confidence \in {"Low", "High"}
                 /\ r.confidence = "Low" <=> DecGt(v, RETAIL_VARIANCE_THRESHOLD)
                 /\ DecGt(benchmark, Dec(0, 0)) =>
                        (r.confidence = "Low"
                            <=> DecGt(off, DecMul(RETAIL_VARIANCE_THRESHOLD, benchmark)))

\* a dashed identifier found under its undashed key, the calculated price
\* exactly 20% above the benchmark: confidence High
C23_Witness ==
    /\ ret.kind = "retail"
    /\ arg.ndc = Some(NdcStr(1, TRUE))
    /\ arg.retail_lookup = <<[key |-> NdcStr(1, FALSE), value |-> Dec(1000, 2)]>>
    /\ arg.calculated_retail = Dec(1200, 2)
    /\ ret.result.confidence = "High"
    /\ DecEq(Val(ret.result.variance_pct), RETAIL_VARIANCE_THRESHOLD)


\* ---------------------------------------------------------------------------
\* Ranking of the dosing table by loading-dose impact (compute/dosing.py)
\* ---------------------------------------------------------------------------

\* fills of the tables here
Year1Cells == {None, Some(0), Some(5), Some(6), Some(17), Some(28)}

Year2Cells == {None, Some(0), Some(4), Some(5), Some(12)}

\* the <<Year 1, Year 2+>> fills among those above at which the IEEE-754 double
\* (y1 - y2) / y2 * 100 falls below a whole percentage that it equals exactly:
\* 23 / 5 * 100 evaluates to 459.99999999999994
FloatBelowExact == {<<28, 5>>}

\* the cell of loading_delta_pct: "null" when a fill count is null, "nan" for
\* 0 / 0, "inf" for a division of a positive count by zero, else "finite"
delta_cell(row) ==
    IF IsNone(row.year_1_fills) \/ IsNone(row.year_2_fills) THEN "null"
    ELSE IF Val(row.year_2_fills) # 0 THEN "finite"
    ELSE IF Val(row.year_1_fills) = 0 THEN "nan" ELSE "inf"

\* pl.col("loading_delta_pct") >= min_delta_pct; a null is filtered out, and
\* nan_ge is what the comparison of a NaN gives in the Polars at hand
delta_at_least(row, min_delta_pct, nan_ge) ==
    LET k == Val(row.year_1_fills) - Val(row.year_2_fills)
        n == Val(row.year_2_fills)
    IN  CASE delta_cell(row) = "null" -> FALSE
          [] delta_cell(row) = "nan" -> nan_ge
          [] delta_cell(row) = "inf" -> TRUE
          [] OTHER -> \/ k * 100 > min_delta_pct * n
                      \/ /\ k * 100 = min_delta_pct * n
                         /\ <<Val(row.year_1_fills), n>> \notin FloatBelowExact

\* loading_delta_pct of a is not below that of b, in the order of the sort:
\* NaN above infinity above the finite values
delta_not_below(a, b) ==
    LET rank(row) == CASE delta_cell(row) = "nan" -> 3
                       [] delta_cell(row) = "inf" -> 2
                       [] OTHER -> 1
        ka == Val(a.year_1_fills) - Val(a.year_2_fills)
        kb == Val(b.year_1_fills) - Val(b.year_2_fills)
    IN  IF rank(a) # rank(b) THEN rank(a) > rank(b)
        ELSE IF rank(a) > 1 THEN TRUE
        ELSE ka * Val(b.year_2_fills) >= kb * Val(a.year_2_fills)

\* find_high_loading_drugs(dosing_grid, min_delta_pct): the results the call
\* can give, each the positions of the grid's rows in the order returned; rows
\* of equal percentage come in either order
find_high_loading_drugs(dosing_grid, min_delta_pct) ==
    IF ~dosing_grid.has_required_columns THEN {<<>>}
    ELSE UNION {
        LET kept == {i \in DOMAIN dosing_grid.rows :
                        delta_at_least(dosing_grid.rows[i], min_delta_pct, nan_ge)}
        IN  {order \in [1..Cardinality(kept) -> kept] :
                /\ \A i, j \in DOMAIN order : i # j => order[i] # order[j]
                /\ \A i \in DOMAIN order : i < Len(order) =>
                       delta_not_below(dosing_grid.rows[order[i]],
                                       dosing_grid.rows[order[i + 1]])}
        : nan_ge \in BOOLEAN}

LoadingGrids ==
    [has_required_columns : BOOLEAN,
     rows : SeqsUpTo([year_1_fills : Year1Cells, year_2_fills : Year2Cells], MaxGridRows)]

InitLoading ==
    /\ IdleMargin
    /\ IdlePenny
    /\ IdleJoin
    /\ IdleRisk
    /\ arg \in [fn : {"high_loading"}, dosing_grid : LoadingGrids,
                min_delta_pct : {0, 20, 25, 460}]
    /\ ret = NoResult

\* a call of find_high_loading_drugs
FindHighLoadingDrugs ==
    /\ arg.fn = "high_loading"
    /\ ret = NoResult
    /\ \E result \in find_high_loading_drugs(arg.dosing_grid, arg.min_delta_pct) :
           ret' = [kind |-> "high_loading", rows |-> result]
    /\ UNCHANGED <<arg, marginVars, pennyVars, joinVars, riskVars>>

SpecLoading == InitLoading /\ [][FindHighLoadingDrugs]_vars

\* the rows of the grid for which the percentage is defined
WithPercentage ==
    {i \in DOMAIN arg.dosing_grid.rows : delta_cell(arg.dosing_grid.rows[i]) = "finite"}

\* (year 1 - year 2+) * 100 compared with pct * year 2+, the percentage of row i
\* against pct without a quotient: 1 above, 0 equal, -1 below
PctAgainst(i, pct) ==
    LET row == arg.dosing_grid.rows[i]
        lhs == (Val(row.year_1_fills) - Val(row.year_2_fills)) * 100
        rhs == pct * Val(row.year_2_fills)
    IN  IF lhs > rhs THEN 1 ELSE IF lhs = rhs THEN 0 ELSE -1

\* the returned rows with a percentage come highest first, none twice
ReturnedHighestFirst ==
    /\ \A i, j \in DOMAIN ret.rows : i # j => ret.rows[i] # ret.rows[j]
    /\ \A i, j \in DOMAIN ret.rows :
           (i < j /\ ret.rows[i] \in WithPercentage /\ ret.rows[j] \in WithPercentage)
           => delta_not_below(arg.dosing_grid.rows[ret.rows[i]],
                              arg.dosing_grid.rows[ret.rows[j]])

\* C24: find_high_loading_drugs returns exactly the rows whose (year-1 fills -
\* steady-state fills) / steady-state fills * 100 is at least the minimum
\* threshold, ordered by that percentage from highest to lowest
C24_ExactlyRowsAtLeastThreshold ==
    (ret.kind = "high_loading" /\ arg.dosing_grid.has_required_columns) =>
        /\ {ret.rows[i] : i \in DOMAIN ret.rows} \cap WithPercentage
               = {i \in WithPercentage : PctAgainst(i, arg.min_delta_pct) >= 0}
        /\ ReturnedHighestFirst

\* what the code returns: the rows above the threshold, none below it, and a
\* row exactly at it unless the floating-point percentage falls short
RowsAtLeastThresholdAsComputed ==
    (ret.kind = "high_loading" /\ arg.dosing_grid.has_required_columns) =>
        /\ {ret.rows[i] : i \in DOMAIN ret.rows} \cap WithPercentage
               = {i \in WithPercentage :
                    \/ PctAgainst(i, arg.min_delta_pct) > 0
                    \/ /\ PctAgainst(i, arg.min_delta_pct) = 0
                       /\ <<Val(arg.dosing_grid.rows[i].year_1_fills),
                            Val(arg.dosing_grid.rows[i].year_2_fills)>> \notin FloatBelowExact}
        /\ ReturnedHighestFirst


\* ---------------------------------------------------------------------------
\* Billing code and price of a catalog row, with the NOC fallback
\* (ui/pages/dashboard.py)
\* ---------------------------------------------------------------------------

\* dashboard._build_noc_lookup: for every NOC crosswalk NDC whose generic name
\* the NOC pricing file prices, the entry of its last such row
_build_noc_lookup(noc_crosswalk, noc_pricing) ==
    LET name_key(s) == strip(upper(s))
        Priced(generic) == {i \in DOMAIN noc_pricing :
                               /\ noc_pricing[i].generic_name # <<>>
                               /\ name_key(noc_pricing[i].generic_name) = generic
                               /\ Truthy(noc_pricing[i].payment_limit)}
        pricing_lookup(generic) ==
            IF Priced(generic) = {} THEN None
            ELSE LET last == CHOOSE i \in Priced(generic) : \A k \in Priced(generic) : k <= i
                 IN  Some(true_asp(Val(noc_pricing[last].payment_limit)))
        ndc_key(i) == strip(replace_char(noc_crosswalk[i].ndc, "-"))
        Entered == {i \in DOMAIN noc_crosswalk :
                       /\ ndc_key(i) # <<>>
                       /\ name_key(noc_crosswalk[i].generic_name) # <<>>
                       /\ IsSome(pricing_lookup(name_key(noc_crosswalk[i].generic_name)))}
        Rows(n) == {i \in Entered : ndc_key(i) = n}
    IN  [n \in {ndc_key(i) : i \in Entered} |->
            LET last == CHOOSE i \in Rows(n) : \A k \in Rows(n) : k <= i
                generic == name_key(noc_crosswalk[last].generic_name)
            IN  [generic_name |-> generic, asp |-> pricing_lookup(generic), is_noc |-> TRUE]]

\* dashboard._row_to_drug, the billing fields of the Drug: the primary lookup
\* first, the NOC lookup when that left no price
_row_to_drug(ndc, hcpcs_lookup, noc_lookup) ==
    LET ndc_normalized == nadac_ndc_key(ndc)
        in_primary == ndc_normalized \in DOMAIN hcpcs_lookup
        primary_asp == IF in_primary THEN hcpcs_lookup[ndc_normalized].asp ELSE None
        primary_code == IF in_primary THEN Some(hcpcs_lookup[ndc_normalized].hcpcs_code)
                        ELSE None
        use_noc == /\ IsNone(primary_asp)
                   /\ DOMAIN noc_lookup # {}
                   /\ ndc_normalized \in DOMAIN noc_lookup
        asp == IF use_noc THEN noc_lookup[ndc_normalized].asp ELSE primary_asp
    IN  [asp |-> IF IsSome(asp) /\ ~DecIsZero(Val(asp)) THEN asp ELSE None,
         hcpcs_code |-> IF use_noc THEN Some("NOC") ELSE primary_code,
         from_noc |-> use_noc]

\* generic names of the NOC files, in two spellings
GenericNames == {<<"a">>, <<"A", " ">>, <<"B">>}

NocCrosswalks ==
    SeqsUpTo([ndc : {NdcStr(n, dashed) : n \in 1..MaxNdc, dashed \in BOOLEAN},
              generic_name : GenericNames], 1)

NocPricings ==
    SeqsUpTo([generic_name : GenericNames, payment_limit : {None, Some(Dec(2800, 2))}], 1)

InitNoc ==
    /\ IdleMargin
    /\ IdlePenny
    /\ IdleJoin
    /\ IdleRisk
    /\ arg \in [fn : {"row_to_drug"}, ndc : NdcStrs,
                crosswalk : CrosswalkTables,
                asp_pricing : SeqsUpTo([hcpcs : HcpcsCodes,
                                        payment_limit : {None, Some(Dec(1060, 2))}], 1),
                noc_crosswalk : NocCrosswalks,
                noc_pricing : NocPricings]
    /\ ret = NoResult

\* _calculate_opportunities for one catalog row: the two lookups are built,
\* then the row is converted
RowToDrug ==
    /\ arg.fn = "row_to_drug"
    /\ ret = NoResult
    /\ ret' = [kind |-> "drug",
               drug |-> _row_to_drug(arg.ndc,
                                     _build_hcpcs_lookup(arg.crosswalk, arg.asp_pricing),
                                     _build_noc_lookup(arg.noc_crosswalk, arg.noc_pricing))]
    /\ UNCHANGED <<arg, marginVars, pennyVars, joinVars, riskVars>>

SpecNoc == InitNoc /\ [][RowToDrug]_vars

\* the rows of the primary crosswalk for the product of the call
PrimaryRows == {i \in DOMAIN arg.crosswalk : arg.crosswalk[i].ndc = nadac_ndc_key(arg.ndc)}

\* the primary crosswalk's entry for the product, the last of its rows
PrimaryRow == arg.crosswalk[CHOOSE i \in PrimaryRows : \A k \in PrimaryRows : k <= i]

\* the price the pricing file gives a billing code, None when it has none
PrimaryPrice(code) ==
    LET Priced == {i \in DOMAIN arg.asp_pricing :
                      /\ arg.asp_pricing[i].hcpcs = code
                      /\ IsSome(arg.asp_pricing[i].payment_limit)}
    IN  IF Priced = {} THEN None
        ELSE Some(true_asp(Val(arg.asp_pricing[CHOOSE i \in Priced :
                                                  \A k \in Priced : k <= i].payment_limit)))

\* C25: the NOC crosswalk and price table are consulted only for a product to
\* which the primary crosswalk gives no billing code; a record priced from the
\* fallback carries the tag "NOC"; a record the primary crosswalk resolves
\* keeps its primary billing code and price
C25_FallbackOnlyWithoutPrimaryCode ==
    ret.kind = "drug" =>
        /\ ret.drug.from_noc =>
               \A i \in PrimaryRows : IsNone(arg.crosswalk[i].hcpcs)
        /\ ret.drug.from_noc => ret.drug.hcpcs_code = Some("NOC")
        /\ (PrimaryRows # {} /\ IsSome(PrimaryRow.hcpcs)) =>
               /\ ret.drug.hcpcs_code = PrimaryRow.hcpcs
               /\ ret.drug.asp = PrimaryPrice(Val(PrimaryRow.hcpcs))

\* what the code does: the fallback is consulted for a product without a
\* primary price, and only a product with a primary price keeps its code
FallbackWithoutPrimaryPrice ==
    ret.kind = "drug" =>
        LET priced == /\ PrimaryRows # {}
                      /\ IsSome(PrimaryRow.hcpcs)
                      /\ IsSome(PrimaryPrice(Val(PrimaryRow.hcpcs)))
        IN  /\ ret.drug.from_noc => (~priced /\ ret.drug.hcpcs_code = Some("NOC"))
            /\ priced => /\ ret.drug.hcpcs_code = PrimaryRow.hcpcs
                         /\ ret.drug.asp = PrimaryPrice(Val(PrimaryRow.hcpcs))
            /\ (PrimaryRows # {} /\ IsSome(PrimaryRow.hcpcs) /\ ~ret.drug.from_noc)
                   => ret.drug.hcpcs_code = PrimaryRow.hcpcs


\* ---------------------------------------------------------------------------
\* Ties for the highest margin (compute/margins.py)
\* ---------------------------------------------------------------------------

\* place of a pathway in the order RETAIL, MEDICARE_MEDICAL, COMMERCIAL_MEDICAL
Priority(path) ==
    CASE path = RETAIL -> 1
      [] path = MEDICARE_MEDICAL -> 2
      [] path = COMMERCIAL_MEDICAL -> 3

\* the options of the highest margin
Top(options) ==
    {i \in 1..Len(options) : \A j \in 1..Len(options) :
                                DecGe(options[i].margin, options[j].margin)}

\* two or more options share the highest margin: path is the first of theirs in
\* the priority order and the delta is 0
TieByPriority(options, path, delta) ==
    Cardinality(Top(options)) >= 2 =>
        /\ \E i \in Top(options) :
              /\ options[i].path = path
              /\ \A j \in Top(options) : Priority(path) <= Priority(options[j].path)
        /\ DecIsZero(delta)

\* the two pathways analyze_drug_with_payer compares
PresentPayer(a, payer_type) ==
    <<Option(RETAIL, a.retail_net_margin)>>
    \o (IF payer_type = "medicare" THEN OptionIf(MEDICARE_MEDICAL, a.medicare_margin)
        ELSE OptionIf(COMMERCIAL_MEDICAL, a.commercial_margin))

\* C26: when two or more present pathways tie for the highest margin, the
\* recommendation follows the priority RETAIL, MEDICARE_MEDICAL,
\* COMMERCIAL_MEDICAL in analyze_drug_margin_5pathway, determine_recommendation
\* and analyze_drug_with_payer alike, and the reported delta is 0
C26_TiesFollowPriority ==
    /\ mres.kind = "analysis5" =>
          TieByPriority(Present5(mres.analysis), mres.analysis.recommended_path,
                        mres.analysis.margin_delta)
    /\ mres.kind = "analysis" =>
          TieByPriority(Present3(mres.analysis.retail_net_margin,
                                 mres.analysis.medicare_margin,
                                 mres.analysis.commercial_margin),
                        mres.analysis.recommended_path, mres.analysis.margin_delta)
    /\ mres.kind = "recommendation" =>
          TieByPriority(Present3(mres.retail_net, mres.medicare, mres.commercial),
                        mres.rec.path, mres.rec.delta)
    /\ mres.kind = "payer" =>
          TieByPriority(PresentPayer(mres.analysis, mres.payer_type),
                        mres.analysis.recommended_path, mres.analysis.margin_delta)

\* a five-pathway analysis of a priced product in which the Medicare and the
\* commercial medical margin tie above both pharmacy margins
C26_Witness ==
    /\ mres.kind = "analysis5"
    /\ IsSome(drug.asp) /\ ~DecIsZero(Val(drug.asp))
    /\ IsSome(mres.analysis.medical_medicare_margin)
    /\ IsSome(mres.analysis.medical_commercial_margin)
    /\ DecEq(Val(mres.analysis.medical_medicare_margin),
             Val(mres.analysis.medical_commercial_margin))
    /\ DecGt(Val(mres.analysis.medical_medicare_margin),
             Val(mres.analysis.pharmacy_medicare_commercial_margin))
    /\ mres.analysis.recommended_path = MEDICARE_MEDICAL
    /\ DecIsZero(mres.analysis.margin_delta)


\* ---------------------------------------------------------------------------
\* Which of several rows of one key the joins attach (ingest/normalizers.py)
\* ---------------------------------------------------------------------------

\* the first row of a table with the given value in a column, None without one
FirstRowWith(rows, column, value) ==
    LET at == {i \in DOMAIN rows : rows[i][column] = value}
    IN  IF at = {} THEN None
        ELSE Some(rows[CHOOSE i \in at : \A k \in at : i <= k])

\* C27: of several crosswalk rows for one normalized identifier the join
\* attaches the billing code of the first in crosswalk order, and the price
\* join attaches the price of the first pricing row of the billing code
C27_JoinsKeepFirstRow ==
    jres.kind = "silver" =>
        /\ \A i \in DOMAIN jres.silver :
              LET r == jres.silver[i]
                  first == FirstRowWith(crosswalk, "ndc", r.ndc)
                  price == FirstRowWith(asp_pricing, "hcpcs", Val(r.hcpcs))
              IN  /\ IsSome(first) /\ r.hcpcs = Val(first).hcpcs
                  /\ r.asp = IF IsSome(price) THEN Val(price).payment_limit ELSE None
        /\ \A i \in DOMAIN jres.orphans :
              LET first == FirstRowWith(crosswalk, "ndc", jres.orphans[i].ndc)
              IN  IsNone(first) \/ IsNone(Val(first).hcpcs)

\* what the joins guarantee: the code of one of the identifier's crosswalk
\* rows, and the price of one of the code's pricing rows
JoinsKeepSomeRow ==
    jres.kind = "silver" =>
        /\ \A i \in DOMAIN jres.silver :
              LET r == jres.silver[i]
              IN  /\ \E k \in DOMAIN crosswalk :
                        crosswalk[k].ndc = r.ndc /\ crosswalk[k].hcpcs = r.hcpcs
                  /\ IF \E k \in DOMAIN asp_pricing : asp_pricing[k].hcpcs = Val(r.hcpcs)
                     THEN \E k \in DOMAIN asp_pricing :
                             /\ asp_pricing[k].hcpcs = Val(r.hcpcs)
                             /\ asp_pricing[k].payment_limit = r.asp
                     ELSE r.asp = None
        /\ \A i \in DOMAIN jres.orphans :
              \A k \in DOMAIN crosswalk :
                  crosswalk[k].ndc = jres.orphans[i].ndc =>
                      \E m \in DOMAIN crosswalk :
                          /\ crosswalk[m].ndc = jres.orphans[i].ndc
                          /\ IsNone(crosswalk[m].hcpcs)


\* ---------------------------------------------------------------------------
\* The ranking analysis against the detail analysis (compute/margins.py)
\* ---------------------------------------------------------------------------

\* every parameter but the capture rate is at its default
DefaultsButRate ==
    /\ params.dispense_fee = DEFAULT_DISPENSE_FEE
    /\ params.medicaid_markup_pct = DEFAULT_MEDICAID_MARKUP
    /\ params.commercial_asp_pct = DEFAULT_COMMERCIAL_ASP_PCT

\* C28: for the same product and capture rate, the other parameters at their
\* defaults, analyze_drug_margin and analyze_drug_margin_5pathway recommend
\* the same pathway
C28_RankingAgreesWithDetail ==
    (mres.kind = "analysis5" /\ DefaultsButRate) =>
        mres.analysis.recommended_path
            = analyze_drug_margin(drug, params.capture_rate).recommended_path

\* where the two agree: a brand product without a NADAC price at a capture
\* rate of 100%
AgreeForBrandAtFullCapture ==
    (/\ mres.kind = "analysis5"
     /\ DefaultsButRate
     /\ drug.is_brand
     /\ IsNone(drug.nadac_price)
     /\ DecEq(params.capture_rate, Dec(1, 0))) =>
        mres.analysis.recommended_path
            = analyze_drug_margin(drug, params.capture_rate).recommended_path

-----------------------------------------------------------------------------
(* Reloads of the risk tables whose source may fail: reload_ira_drugs from *)
(* a CSV path or a DataFrame, reload_cp_restrictions from a DataFrame or   *)
(* the default workbook.                                                   *)

\* the tables a reload is given
ReloadFrames ==
    {<<>>,
     <<[drug_name |-> <<"a">>, ira_year |-> 2027, description |-> "desc"]>>,
     <<[drug_name |-> <<"A", "B">>, ira_year |-> 2026, description |-> "desc"]>>}

\* reload_ira_drugs is called with a CSV path (file: the table read, None
\* when the file is missing or raises while it is read or parsed) or with a
\* DataFrame (None: a frame whose ira_year cells int() rejects)
IraSources == [kind : {"csv_path", "df"}, file : {None} \cup {Some(f) : f \in ReloadFrames}]

\* reload_cp_restrictions is called with a DataFrame, or without one and
\* the default workbook is absent, raises while it is read, or is read
CpSources ==
    {[kind |-> "df", file |-> Some(t)] : t \in CpTables}
    \cup {[kind |-> "no_file", file |-> None], [kind |-> "unreadable", file |-> None]}
    \cup {[kind |-> "file", file |-> Some(t)] : t \in CpTables}

\* CP_RESTRICTIONS after reload_cp_restrictions; the table of a source is
\* the dict load_cp_restrictions builds from it
reload_cp_restrictions(restrictions, source) ==
    IF source.kind = "df" THEN Val(source.file)
    ELSE IF source.kind = "file" THEN Val(source.file)
    ELSE restrictions

Snapshot ==
    [d26 |-> IRA_2026_DRUGS, d27 |-> IRA_2027_DRUGS, by_year |-> IRA_DRUGS_BY_YEAR.items,
     cp |-> CP_RESTRICTIONS]

\* import of both modules: the IRA tables are loaded from the CSV file,
\* CP_RESTRICTIONS is the empty dict
InitReload ==
    /\ IdleMargin
    /\ IdlePenny
    /\ IdleJoin
    /\ IdleCall
    /\ \E file \in {None} \cup {Some(f) : f \in ReloadFrames} :
          LET loaded == load_ira_drugs_from_csv(file)
          IN  /\ IRA_2026_DRUGS = loaded.d26
              /\ IRA_2027_DRUGS = loaded.d27
              /\ IRA_DRUGS_BY_YEAR = [id |-> 0, items |-> BuildByYear(loaded.d26, loaded.d27)]
              /\ committed = [d26 |-> loaded.d26, d27 |-> loaded.d27, cp |-> <<>>]
    /\ CP_RESTRICTIONS = <<>>
    /\ reload = [pc |-> "idle", count |-> 0, table |-> "none", failed |-> FALSE,
                 before |-> [d26 |-> <<>>, d27 |-> <<>>, by_year |-> <<>>, cp |-> <<>>]]
    /\ lookup = [pc |-> "idle"]

\* reload_ira_drugs(csv_path=...) or reload_ira_drugs(df=...), start to end
ReloadIraFromSource ==
    /\ reload.count < MaxReloads
    /\ \E source \in IraSources :
          IF source.kind = "df" /\ IsNone(source.file)
          THEN \* load_ira_drugs_from_dataframe raises before anything is bound
               /\ reload' = [pc |-> "idle", count |-> reload.count + 1, table |-> "ira",
                             failed |-> TRUE, before |-> Snapshot]
               /\ UNCHANGED <<IRA_2026_DRUGS, IRA_2027_DRUGS, IRA_DRUGS_BY_YEAR, committed>>
          ELSE LET loaded == IF source.kind = "df"
                             THEN load_ira_drugs_from_dataframe(Val(source.file))
                             ELSE load_ira_drugs_from_csv(source.file)
                   globals == reload_ira_drugs(IRA_DRUGS_BY_YEAR.items, loaded)
               IN  /\ IRA_2026_DRUGS' = globals.d26
                   /\ IRA_2027_DRUGS' = globals.d27
                   /\ IRA_DRUGS_BY_YEAR' = [id |-> IRA_DRUGS_BY_YEAR.id + 1,
                                            items |-> globals.by_year]
                   /\ committed' = [committed EXCEPT !.d26 = loaded.d26, !.d27 = loaded.d27]
                   /\ reload' = [pc |-> "idle", count |-> reload.count + 1, table |-> "ira",
                                 failed |-> IsNone(source.file), before |-> Snapshot]
    /\ UNCHANGED <<CP_RESTRICTIONS, lookup, marginVars, pennyVars, joinVars, callVars>>

\* reload_cp_restrictions(df) or reload_cp_restrictions(), start to end
ReloadCpFromSource ==
    /\ reload.count < MaxReloads
    /\ \E source \in CpSources :
          /\ CP_RESTRICTIONS' = reload_cp_restrictions(CP_RESTRICTIONS, source)
          /\ committed' = [committed EXCEPT !.cp = CP_RESTRICTIONS']
          /\ reload' = [pc |-> "idle", count |-> reload.count + 1, table |-> "cp",
                        failed |-> IsNone(source.file), before |-> Snapshot]
    /\ UNCHANGED <<IRA_2026_DRUGS, IRA_2027_DRUGS, IRA_DRUGS_BY_YEAR, lookup,
                   marginVars, pennyVars, joinVars, callVars>>

NextReload ==
    \/ ReloadIraFromSource
    \/ ReloadCpFromSource

SpecReload == InitReload /\ [][NextReload]_vars

\* every lookup answers from the tables now as it does from the tables v
AnswersAsFrom(v) ==
    /\ \A name \in IraQueries :
          check_ira_status(name, IRA_DRUGS_BY_YEAR.items, IRA_2026_DRUGS, IRA_2027_DRUGS)
              = check_ira_status(name, v.by_year, v.d26, v.d27)
    /\ \A name \in LookupNames :
          check_cp_restriction(name, CP_RESTRICTIONS) = check_cp_restriction(name, v.cp)

\* C29: after a reload whose source could not be read or parsed, every
\* lookup answers exactly as it did before the reload was attempted
C29_FailedReloadKeepsTable == reload.failed => AnswersAsFrom(reload.before)

\* what a failed reload leaves: reload_cp_restrictions and reload_ira_drugs
\* with a DataFrame leave the tables as they were, reload_ira_drugs with a
\* CSV path installs the hardcoded lists
FailedReloadKeepsOrFallsBack ==
    reload.failed =>
        \/ AnswersAsFrom(reload.before)
        \/ /\ reload.table = "ira"
           /\ IRA_2026_DRUGS = FALLBACK_IRA_DRUGS.d26
           /\ IRA_2027_DRUGS = FALLBACK_IRA_DRUGS.d27
           /\ IRA_DRUGS_BY_YEAR.items = BuildByYear(IRA_2026_DRUGS, IRA_2027_DRUGS)
           /\ CP_RESTRICTIONS = reload.before.cp

-----------------------------------------------------------------------------
(* Blank product names looked up in the statutory-negotiation table *)

\* C30: check_ira_status never flags a name that is empty after trimming
\* whitespace, whatever table is loaded
C30_BlankNameNeverFlagged ==
    (lookup.pc = "done" /\ lookup.kind = "ira" /\ strip(lookup.name) = <<>>) =>
        ~lookup.result.is_ira_drug

\* the empty name is never flagged, and a whitespace-only name is flagged
\* exactly when the table lists any name, as the first name listed
BlankNameFlaggedAsFirstListed ==
    (lookup.pc = "done" /\ lookup.kind = "ira" /\ strip(lookup.name) = <<>>) =>
        \A v \in lookup.during :
            LET by_year == BuildByYear(v.d26, v.d27)
            IN  /\ lookup.name = <<>> => ~lookup.result.is_ira_drug
                /\ lookup.name # <<>> =>
                      /\ lookup.result.is_ira_drug <=> by_year # <<>>
                      /\ lookup.result.is_ira_drug =>
                            lookup.result.drug_name = Some(by_year[1].key)

====
